---- MODULE Spec2Model ----
(***************************************************************************)
(* A model of the MQTToT real-time transport of go-instagram-cli           *)
(* (src/client/mqtt.go).                                                    *)
(*                                                                          *)
(* Several specifications share the module:                                *)
(*   CodecSpec  the frame codec: writeRemainingLength, readRemainingLength  *)
(*              and readPacket, one loop iteration per step, over sampled   *)
(*              remaining-length values and raw length fields;              *)
(*   Spec       the client as a set of concurrent tasks (callers, reader    *)
(*              goroutines, keepalive goroutines) and a broker, with        *)
(*              frames as typed records.  TimelySpec is Spec with timers    *)
(*              that expire only when no local task can run.                *)
(*   SessionSpec   one connection from its successful Connect to its end;   *)
(*   HandlerSpec   one call of a packet handler, of the allocator or of a   *)
(*              writer of a length-prefixed field;                          *)
(*   AllocSpec     the allocation of packet identifiers by concurrent       *)
(*              callers over a full cycle of the counter.                   *)
(***************************************************************************)
EXTENDS Integers, Sequences, FiniteSets, TLC

\* ------------------------------------------------------------------------
\* Bounds of the model
\* ------------------------------------------------------------------------

\* Remaining-length values 0..MaxSmallLen are enumerated one by one.
MaxSmallLen == 40

\* Values within NearBoundary of each power of 128 are enumerated as well.
NearBoundary == 2

\* Raw length fields of up to MaxFieldBytes bytes are fed to the decoder.
MaxFieldBytes == 5

\* ------------------------------------------------------------------------
\* Frame codec
\* ------------------------------------------------------------------------

VARIABLES
    codecMode,      \* "off" | "roundtrip" | "raw" | "publish"
    encIn,          \* the remaining length handed to writeRemainingLength
    length,         \* writeRemainingLength: the local `length`
    buf,            \* writeRemainingLength: bytes written to buf so far
    encPc,          \* "idle" | "loop" | "done"
    wire,           \* bytes of the socket not yet read by the decoder
    bodyAvail,      \* number of body bytes the socket holds after the field
    multiplier,     \* readRemainingLength: the local `multiplier`
    value,          \* readRemainingLength: the local `value`
    seen,           \* length bytes read by readRemainingLength so far
    decPc,          \* "idle" | "loop" | "body" | "ok" | "malformed" | "eof"
    bodyRead        \* body bytes readPacket read

codecVars == <<codecMode, encIn, length, buf, encPc, wire, bodyAvail,
               multiplier, value, seen, decPc, bodyRead>>

\* ------------------------------------------------------------------------
\* The client: state
\* ------------------------------------------------------------------------

VARIABLES
    \* fields of MQTTClient (mqtt.go 46-70)
    mu,             \* Free, or the caller holding m.mu across a blocking wait
    conn,           \* m.conn: NoSock (nil) or a socket
    connected,      \* m.connected
    packetID,       \* m.packetID, uint16
    messageHandler, \* m.messageHandler # nil
    pingTicker,     \* m.pingTicker: "nil" | "running" | "stopped"
    stopChan,       \* m.stopChan: "open" | "closed"
    connackChan,    \* m.connackChan, capacity 1: return codes
    pubackChan,     \* m.pubackChan, capacity 10: packet identifiers
    subackChan,     \* m.subackChan, capacity 1: [id, codes]
    \* the process
    panicked,       \* a goroutine panicked: the process is gone
    \* sockets
    nsock,          \* sockets dialed so far
    sock,           \* socket -> "none" | "up" | "down" (cut off) | "closed" (by the client)
    inq,            \* socket -> frames sent by the broker, not yet read
    \* callers
    pc,             \* caller -> where it is in its call
    cpid,           \* caller -> the local packetID of Publish / Subscribe
    \* reader goroutines
    rpc,            \* reader -> "off" | "reading" | "puback" | "hd" (in handleDisconnect) | "panic"
    rsock,          \* reader -> the value of m.conn its read is blocked on
    rframe,         \* reader -> the PUBLISH frame it is handling
    \* keepalive goroutines
    kpc,            \* keepalive -> "off" | "wait" | "hd" (in handleDisconnect)
    \* what the latest step did
    ret,            \* [err, line]: the value and line of the return it made, if any
    sent,           \* [sock, frame]: the frame it put on the wire, if any
    called,         \* the handler invocation it started, if any
    \* history
    connackSeen,    \* a CONNACK with return code 0 was handled since the last dial
    expired,        \* packet identifiers whose wait timed out
    nframes,        \* frames the broker sent so far
    \* message handlers
    handlers        \* goroutines started with m.messageHandler, none known to return

clientVars == <<mu, conn, connected, packetID, messageHandler, pingTicker,
                stopChan, panicked>>
chanVars == <<connackChan, pubackChan, subackChan>>
sockVars == <<nsock, sock, inq>>
callerVars == <<pc, cpid>>
readerVars == <<rpc, rsock, rframe>>
eventVars == <<ret, sent, called>>
histVars == <<connackSeen, expired, nframes>>

mainVars == <<clientVars, chanVars, sockVars, callerVars, readerVars, kpc, eventVars,
              histVars, handlers>>

\* ------------------------------------------------------------------------
\* One call of a packet handler or of the allocator, on its own
\* ------------------------------------------------------------------------

VARIABLES
    hcall,          \* the call: [fn, qos, len, topicLen, counter]
    hres,           \* its outcome: [done, err, panic, send, hi, value]
    allocated       \* the identifiers nextPacketID returned in this run:
                    \* [n, first, recent]: how many, the first, the latest few

unitVars == <<hcall, hres, allocated>>

vars == <<codecVars, mainVars, unitVars>>


Pow128(k) == IF k = 0 THEN 1 ELSE IF k = 1 THEN 128 ELSE IF k = 2 THEN 128 * 128
             ELSE IF k = 3 THEN 128 * 128 * 128 ELSE 128 * 128 * 128 * 128

\* The largest value four base-128 groups hold (268,435,455).
MaxRemainingLength == Pow128(4) - 1

\* The remaining-length values the encoder is run on: a dense prefix and the
\* neighbourhood of every power of 128, on both sides of the 4-byte capacity.
LengthSamples ==
    (0 .. MaxSmallLen)
    \cup UNION { (Pow128(k) - NearBoundary) .. (Pow128(k) + NearBoundary) : k \in 1..4 }

\* Bytes of a raw length field: no magnitude, small magnitude, full magnitude,
\* each with the continuation bit clear and set.
FieldBytes == {0, 1, 127, 128, 129, 255}

RECURSIVE SeqsUpTo(_, _)
SeqsUpTo(S, n) ==
    IF n = 0 THEN {<<>>}
    ELSE LET shorter == SeqsUpTo(S, n - 1)
         IN  shorter \cup { Append(s, b) : s \in { t \in shorter : Len(t) = n - 1 }, b \in S }

\* A raw length field as the decoder delimits it: every byte but the last has
\* the continuation bit set; the last byte is free (a field whose last byte
\* still has the bit set is truncated or over-long).
RawFields ==
    { f \in SeqsUpTo(FieldBytes, MaxFieldBytes) :
        /\ f # <<>>
        /\ \A i \in 1 .. (Len(f) - 1) : f[i] >= 128 }

\* Body sizes the socket may hold behind a raw length field.
BodySizes == {0, 1, 127, 200, Pow128(2), Pow128(3) + 129, Pow128(4)}

\* Publish (mqtt.go 613-632): remainingLength = varHeader.Len() + len(compressedPayload),
\* the variable header being the 2-byte topic length, the topic and, for QoS > 0,
\* the 2-byte packet identifier.
PublishRemainingLength(topicLen, qos, compressedLen) ==
    2 + topicLen + (IF qos > 0 THEN 2 ELSE 0) + compressedLen

\* Sizes of compressed payloads handed to Publish.
PayloadSizes == {0, 1, 100, Pow128(2), Pow128(3), MaxRemainingLength - 12, MaxRemainingLength}

TopicLens == {0, 1, 16}

CodecOff ==
    /\ codecMode = "off"
    /\ encIn = 0 /\ length = 0 /\ buf = <<>> /\ encPc = "idle"
    /\ wire = <<>> /\ bodyAvail = 0
    /\ multiplier = 1 /\ value = 0 /\ seen = <<>> /\ decPc = "idle" /\ bodyRead = 0

CodecStart ==
    /\ buf = <<>>
    /\ multiplier = 1 /\ value = 0 /\ seen = <<>> /\ decPc = "idle" /\ bodyRead = 0
    /\ \/ /\ codecMode = "roundtrip"
          /\ encIn \in LengthSamples
          /\ length = encIn /\ encPc = "loop"
          /\ wire = <<>> /\ bodyAvail = encIn
       \/ /\ codecMode = "publish"
          /\ \E t \in TopicLens, q \in {0, 1}, p \in PayloadSizes :
                encIn = PublishRemainingLength(t, q, p)
          /\ length = encIn /\ encPc = "loop"
          /\ wire = <<>> /\ bodyAvail = encIn
       \/ /\ codecMode = "raw"
          /\ encIn = 0 /\ length = 0 /\ encPc = "idle"
          /\ wire \in RawFields
          /\ bodyAvail \in BodySizes

\* One iteration of the loop of writeRemainingLength (mqtt.go 292-302).
writeRemainingLength ==
    /\ UNCHANGED <<mainVars, unitVars>>
    /\ encPc = "loop"
    /\ LET rest == length \div 128
           encodedByte == IF rest > 0 THEN (length % 128) + 128 ELSE length % 128
       IN  /\ length' = rest
           /\ buf' = Append(buf, encodedByte)
           /\ encPc' = IF rest = 0 THEN "done" ELSE "loop"
    /\ UNCHANGED <<codecMode, encIn, wire, bodyAvail, multiplier, value, seen, decPc, bodyRead>>

\* The frame is put on the wire: the decoder reads what the encoder wrote.
Transmit ==
    /\ UNCHANGED <<mainVars, unitVars>>
    /\ encPc = "done" /\ decPc = "idle" /\ wire = <<>> /\ seen = <<>>
    /\ wire' = buf
    /\ UNCHANGED <<codecMode, encIn, length, buf, encPc, bodyAvail, multiplier, value,
                   seen, decPc, bodyRead>>

\* readRemainingLength (mqtt.go 356-379), one loop iteration: read one byte,
\* accumulate, multiply, test the multiplier, test the continuation bit.
readRemainingLength ==
    /\ UNCHANGED <<mainVars, unitVars>>
    /\ decPc \in {"idle", "loop"}
    /\ encPc \in {"idle", "done"}
    /\ codecMode # "off"
    /\ (encPc = "done") => (wire # <<>> \/ seen # <<>>)
    /\ IF wire = <<>>
       THEN \* io.ReadFull fails: the socket holds no further byte
            /\ decPc' = "eof"
            /\ UNCHANGED <<wire, multiplier, value, seen>>
       ELSE LET b == Head(wire)
                v == value + (b % 128) * multiplier
                m == multiplier * 128
            IN  /\ wire' = Tail(wire)
                /\ seen' = Append(seen, b)
                /\ value' = v
                /\ multiplier' = m
                /\ decPc' = IF m > 128 * 128 * 128 THEN "malformed"
                            ELSE IF b < 128 THEN "body"
                            ELSE "loop"
    /\ UNCHANGED <<codecMode, encIn, length, buf, encPc, bodyAvail, bodyRead>>

\* readPacket (mqtt.go 343-349): read exactly remainingLength body bytes.
readPacketBody ==
    /\ UNCHANGED <<mainVars, unitVars>>
    /\ decPc = "body"
    /\ IF value > bodyAvail
       THEN decPc' = "eof" /\ UNCHANGED bodyRead
       ELSE decPc' = "ok" /\ bodyRead' = value
    /\ UNCHANGED <<codecMode, encIn, length, buf, encPc, wire, bodyAvail, multiplier,
                   value, seen>>

CodecNext == writeRemainingLength \/ Transmit \/ readRemainingLength \/ readPacketBody


\* ------------------------------------------------------------------------
\* The client: bounds
\* ------------------------------------------------------------------------

\* Sockets the client may dial (successful tls.Dial calls).
MaxConnects == 2

\* Frames the broker sends in total.
MaxFrames == 2

\* Packet identifiers allocated in a run (the counter starts at 0).
MaxPid == 2

\* "app" calls every method; "worker" only subscribes.
Callers == {"app", "worker"}

Sockets == 1 .. MaxConnects

\* Reader and keepalive goroutines are named by the socket dialed by the
\* Connect call that started them.
Tasks == Sockets

NoSock == 0

Free == "free"

\* ------------------------------------------------------------------------
\* The packet handlers on a body
\* ------------------------------------------------------------------------

\* Bodies of 0..MaxBody bytes are handed to the handlers.
MaxBody == 10

\* The largest value of a uint16 (m.packetID, topicLen).
MaxUint16 == 65535

\* Topic-length prefixes of a PUBLISH body: every small value and the ends of
\* the 16-bit range.
TopicLenSamples == (0 .. MaxBody + 2) \cup {255, 256, MaxUint16 - 2, MaxUint16 - 1, MaxUint16}

\* QoS bits of the PUBLISH flags.
QosBits == 0 .. 3

\* uint16 arithmetic wraps around.
Uint16(n) == n % (MaxUint16 + 1)

\* A message payload, by what it is of the bytes that follow the PUBLISH
\* header: those bytes themselves ("raw"), all they inflate to ("inflated"),
\* the part inflated before the stream broke off ("partial"), or no bytes
\* ("nil").  zlib says what the zlib package makes of the bytes.
Payload(is, zlib) == [is |-> is, zlib |-> zlib]

NoPayload == Payload("nil", "none")

Outcome(err, panic, send, hi) ==
    [done |-> TRUE, err |-> err, panic |-> panic, send |-> send, hi |-> hi, value |-> 0,
     messagePayload |-> NoPayload, written |-> 0]

\* handleConnack (mqtt.go 406-432) on a body of n bytes: an error, or the
\* return code is sent to connackChan.
handleConnackPayload(n) ==
    IF n < 2 THEN Outcome("CONNACK payload too short", FALSE, FALSE, 0)
    ELSE Outcome("nil", FALSE, TRUE, 0)

\* handlePuback (mqtt.go 490-507) on a body of n bytes.
handlePubackPayload(n) ==
    IF n < 2 THEN Outcome("PUBACK payload too short", FALSE, FALSE, 0)
    ELSE Outcome("nil", FALSE, TRUE, 0)

\* handleSuback (mqtt.go 510-531) on a body of n bytes.
handleSubackPayload(n) ==
    IF n < 3 THEN Outcome("SUBACK payload too short", FALSE, FALSE, 0)
    ELSE Outcome("nil", FALSE, TRUE, 0)

\* handlePublish (mqtt.go 435-487) on a body of n bytes whose first two bytes
\* read topicLen.  2+topicLen is a uint16 sum, in the length test and as the
\* upper index of the topic slice payload[2 : 2+topicLen]; a slice expression
\* whose upper index is below its lower index panics.  offset is an int.
handlePublishPayload(qos, n, topicLen) ==
    LET high == Uint16(2 + topicLen)
        offset == 2 + topicLen
    IN  IF n < 2 THEN Outcome("PUBLISH payload too short", FALSE, FALSE, 0)
        ELSE IF n < high THEN Outcome("PUBLISH topic too short", FALSE, FALSE, 0)
        ELSE IF high < 2 THEN Outcome("none", TRUE, FALSE, high)
        ELSE IF qos > 0 /\ n < offset + 2
             THEN Outcome("PUBLISH packet ID missing", FALSE, FALSE, high)
        ELSE Outcome("nil", FALSE, FALSE, high)

\* Length of the message payload of a PUBLISH body of n bytes (mqtt.go
\* 451-462): what follows the topic and, above QoS 0, the packet identifier.
PayloadLen(qos, n, topicLen) == n - (2 + topicLen) - (IF qos > 0 THEN 2 ELSE 0)

\* What the zlib package can make of a payload of len bytes.  Under two bytes
\* there is no zlib header to read; a header may be invalid; a stream may break
\* off after its header; a complete stream (two bytes of header, two or more
\* of deflate data, four of Adler-32) may carry a wrong checksum or be valid.
ZlibForms(len) ==
    IF len < 2 THEN {"no header"}
    ELSE IF len < 8 THEN {"bad header", "truncated"}
    ELSE {"bad header", "truncated", "bad checksum", "valid"}

\* tryDecompress returning what was inflated without the error of io.ReadAll
\* (mqtt.go 541).
tryDecompressLenient(zlib) ==
    IF zlib \in {"no header", "bad header"}
    THEN [data |-> NoPayload, err |-> "zlib: invalid header"]
    ELSE IF zlib = "truncated" THEN [data |-> Payload("partial", zlib), err |-> "nil"]
    ELSE [data |-> Payload("inflated", zlib), err |-> "nil"]

\* tryDecompress (mqtt.go 533-542) on a payload of the given form:
\* zlib.NewReader fails on the header (nil, err); io.ReadAll returns what it
\* inflated together with the error that stopped it, or with nil.
tryDecompress(zlib) ==
    IF zlib \in {"no header", "bad header"}
    THEN [data |-> NoPayload, err |-> "zlib: invalid header"]
    ELSE IF zlib = "truncated"
    THEN [data |-> Payload("partial", zlib), err |-> "unexpected EOF"]
    ELSE IF zlib = "bad checksum"
    THEN [data |-> Payload("inflated", zlib), err |-> "zlib: invalid checksum"]
    ELSE [data |-> Payload("inflated", zlib), err |-> "nil"]

\* handlePublish (mqtt.go 462-483) past the header: messagePayload is the
\* bytes after the header, replaced by the result of tryDecompress only when
\* that returned no error; it is what the handler is started with.
handlePublishMessage(qos, n, topicLen, zlib) ==
    LET header == handlePublishPayload(qos, n, topicLen)
        decompressed == tryDecompress(zlib)
    IN  IF header.err # "nil" THEN header
        ELSE [header EXCEPT !.messagePayload = IF decompressed.err = "nil"
                                               THEN decompressed.data
                                               ELSE Payload("raw", zlib)]

\* Byte lengths of a field written behind a 16-bit length prefix (a topic,
\* the session blob): the small ones, the ends of the 16-bit range and
\* lengths past it.
FieldLenSamples ==
    TopicLenSamples \cup {MaxUint16 + 1, MaxUint16 + 2, 2 * (MaxUint16 + 1) + 1}

\* A field of n bytes written behind its length prefix, as buildConnectPacket
\* (mqtt.go 268-269), Subscribe (560-561) and Publish (614-615) write it:
\* the prefix is uint16(len(field)), a conversion that keeps the low 16 bits,
\* and all n bytes of the field follow.
writeLengthPrefixed(n) ==
    [Outcome("nil", FALSE, FALSE, 0) EXCEPT !.value = Uint16(n), !.written = n]

\* ------------------------------------------------------------------------
\* Frames
\* ------------------------------------------------------------------------

\* A frame: control-packet type, packet identifier, CONNACK return code, QoS,
\* SUBACK return codes, whether the body is shorter than the handler needs,
\* and the topic-length prefix of a PUBLISH body that is cut short.
Frame(t, id, rc, qos, codes, short) ==
    [t |-> t, id |-> id, rc |-> rc, qos |-> qos, codes |-> codes, short |-> short,
     topicLen |-> 0]

\* A PUBLISH whose body is the two bytes 0xFF 0xFF: a topic length of 65535
\* and no topic.
OverlongPublish == [Frame("PUBLISH", 0, 0, 0, <<>>, TRUE) EXCEPT !.topicLen = MaxUint16]

NoFrame == Frame("NONE", 0, 0, 0, <<>>, FALSE)

\* CONNACK return codes the broker uses: accepted, refused (not authorized).
ReturnCodes == {0, 5}

\* SUBACK return-code lists the broker uses.
SubackCodes == {<<1>>, <<1, 128>>}

\* The packet identifiers the broker puts in its own QoS-1 PUBLISH frames.
BrokerPids == {7}

\* Frame types the broker sends with a body shorter than the type's minimum.
ShortTypes == {"PUBACK"}

\* What the broker may send: any frame at any time.  Acknowledgments name
\* identifiers the client has allocated.
BrokerFrames ==
    { Frame("CONNACK", 0, rc, 0, <<>>, FALSE) : rc \in ReturnCodes }
    \cup { Frame("PUBLISH", 0, 0, 0, <<>>, FALSE) }
    \cup { Frame("PUBLISH", id, 0, 1, <<>>, FALSE) : id \in BrokerPids }
    \cup { Frame("PUBACK", id, 0, 0, <<>>, FALSE) : id \in 1 .. packetID }
    \cup { Frame("SUBACK", id, 0, 0, codes, FALSE) : id \in 1 .. packetID, codes \in SubackCodes }
    \cup { Frame("PINGRESP", 0, 0, 0, <<>>, FALSE) }
    \cup { Frame(t, 0, 0, 0, <<>>, TRUE) : t \in ShortTypes }
    \cup { Frame("MALFORMED", 0, 0, 0, <<>>, FALSE) }
    \cup { OverlongPublish }

\* ------------------------------------------------------------------------
\* Helpers
\* ------------------------------------------------------------------------

\* nextPacketID on a counter declared one byte wide.
nextPacketIDNarrow(p) ==
    LET q == (p + 1) % 256
    IN  IF q = 0 THEN 1 ELSE q

\* nextPacketID without the step over 0 (mqtt.go 795-797).
nextPacketIDWraps(p) == (p + 1) % 65536

\* nextPacketID (mqtt.go 793-799) on a uint16 counter.
nextPacketID(p) ==
    LET q == (p + 1) % 65536
    IN  IF q = 0 THEN 1 ELSE q

\* conn.Write succeeds on a socket that is neither closed nor cut off.
CanWrite(s) == s # NoSock /\ sock[s] = "up"

\* The socket is open on the client's side.
IsOpen(s) == s # NoSock /\ sock[s] \in {"up", "down"}

\* conn.Close(): the socket is closed and what it held unread is gone.
Close(s) ==
    /\ sock' = [sock EXCEPT ![s] = "closed"]
    /\ inq' = [inq EXCEPT ![s] = <<>>]

NoWrite == [sock |-> NoSock, frame |-> NoFrame]

\* m.conn.Write(frame): the frame is on the wire if the write succeeds.
Write(frame) ==
    sent' = IF CanWrite(conn) THEN [sock |-> conn, frame |-> frame] ELSE NoWrite

NoReturn == [err |-> "none", line |-> 0]

\* A call returns err from the return statement at the given line.
Returned(err, line) == ret' = [err |-> err, line |-> line]

NoCall == [from |-> NoSock, cur |-> NoSock, acked |-> FALSE]

\* The step starts no handler.
NoDispatch == called' = NoCall /\ UNCHANGED handlers

\* The step returns from no call, writes no frame, starts no handler.
Quiet == ret' = NoReturn /\ sent' = NoWrite /\ NoDispatch

\* select { case ch <- v: default: } on a channel of capacity cap.
TrySend(ch, v, cap) == IF Len(ch) < cap THEN Append(ch, v) ELSE ch

\* readLoop (mqtt.go 307-311): the select at the top of the loop, taken as soon
\* as the reader gets there: it returns once stopChan is closed, and otherwise
\* blocks in the read of readPacket.
readLoop == IF stopChan = "closed" THEN "off" ELSE "reading"

\* The read a reader is blocked in fails: its socket was closed by the client,
\* or was cut off and holds nothing more to read.
ReadFails(r) ==
    \/ sock[rsock[r]] = "closed"
    \/ sock[rsock[r]] = "down" /\ inq[rsock[r]] = <<>>

\* A reader goroutine has a step it can take now.
ReaderCanRun(r) ==
    \/ rpc[r] \in {"puback", "hd"} /\ mu = Free
    \/ rpc[r] = "reading" /\ ReadFails(r) /\ mu = Free
    \/ rpc[r] = "reading" /\ sock[rsock[r]] # "closed" /\ inq[rsock[r]] # <<>>

\* A keepalive goroutine has a step it can take now.
KeepAliveCanRun(k) ==
    \/ kpc[k] = "hd" /\ mu = Free
    \/ kpc[k] = "wait" /\ stopChan = "closed"

LocalCanRun == \E t \in Tasks : ReaderCanRun(t) \/ KeepAliveCanRun(t)

\* A timer (time.After, the ticker, the read deadline) expires.  Under the
\* timely reading, timers (10 s and more) expire only when no goroutine has a
\* step to take and the awaited channel is empty.
TimerExpires(timely, ch) == timely => (ch = <<>> /\ ~LocalCanRun)

\* The process has not died of a panic; neither the codec scenario nor a
\* handler call on its own is running.
Alive == ~panicked /\ UNCHANGED <<codecVars, unitVars>>

\* Some caller is blocked in a select on the channel.
Waiting(where) == \E c \in Callers : pc[c] = where

\* ------------------------------------------------------------------------
\* Init
\* ------------------------------------------------------------------------

\* NewMQTTClient (mqtt.go 103-113).
NewMQTTClient ==
    /\ mu = Free
    /\ conn = NoSock
    /\ connected = FALSE
    /\ packetID = 0
    /\ messageHandler = FALSE
    /\ pingTicker = "nil"
    /\ stopChan = "open"
    /\ connackChan = <<>>
    /\ pubackChan = <<>>
    /\ subackChan = <<>>

MainInit ==
    /\ NewMQTTClient
    /\ panicked = FALSE
    /\ nsock = 0
    /\ sock = [s \in Sockets |-> "none"]
    /\ inq = [s \in Sockets |-> <<>>]
    /\ pc = [c \in Callers |-> "idle"]
    /\ cpid = [c \in Callers |-> 0]
    /\ rpc = [r \in Tasks |-> "off"]
    /\ rsock = [r \in Tasks |-> NoSock]
    /\ rframe = [r \in Tasks |-> NoFrame]
    /\ kpc = [k \in Tasks |-> "off"]
    /\ ret = NoReturn
    /\ sent = NoWrite
    /\ called = NoCall
    /\ connackSeen = FALSE
    /\ expired = {}
    /\ nframes = 0
    /\ handlers = 0

\* No handler call is being examined on its own.
NoHandlerCall == [fn |-> "none", qos |-> 0, len |-> 0, topicLen |-> 0, counter |-> 0,
                  zlib |-> "none"]

NoResult == [done |-> FALSE, err |-> "none", panic |-> FALSE, send |-> FALSE,
             hi |-> 0, value |-> 0, messagePayload |-> NoPayload, written |-> 0]

\* No identifier has been allocated yet.
NoAllocs == [n |-> 0, first |-> 0, recent |-> <<>>]

HandlerOff == hcall = NoHandlerCall /\ hres = NoResult /\ allocated = NoAllocs

Init == CodecOff /\ MainInit /\ HandlerOff

CodecInit == CodecStart /\ MainInit /\ HandlerOff

\* ------------------------------------------------------------------------
\* Callers
\* ------------------------------------------------------------------------

\* Connect without the test of m.connected (mqtt.go 120-122): it dials
\* whatever the state of the client.
ConnectAlways(c) ==
    /\ Alive
    /\ c = "app"
    /\ pc[c] = "idle" /\ mu = Free
    /\ nsock < MaxConnects
    /\ LET s == nsock + 1
       IN  /\ nsock' = s
           /\ sock' = [sock EXCEPT ![s] = "up"]
           /\ conn' = s
           /\ rpc' = [rpc EXCEPT ![s] = readLoop]
           /\ rsock' = [rsock EXCEPT ![s] = IF readLoop = "reading" THEN s ELSE NoSock]
    /\ connackSeen' = FALSE
    /\ mu' = c
    /\ pc' = [pc EXCEPT ![c] = "sendConnect"]
    /\ Quiet
    /\ UNCHANGED <<connected, packetID, messageHandler, pingTicker, stopChan,
                   panicked, chanVars, inq, cpid, rframe, kpc, expired, nframes>>

\* Connect (mqtt.go 116-144): lock, return nil if connected, dial, store the
\* socket, start the reader.  The lock is held until Connect returns.
Connect(c) ==
    /\ Alive
    /\ c = "app"
    /\ pc[c] = "idle" /\ mu = Free
    /\ \/ /\ connected
          /\ Returned("nil", 121)
          /\ UNCHANGED <<mu, conn, nsock, sock, pc, rpc, rsock, connackSeen>>
       \/ /\ ~connected
          /\ Returned("failed to connect to MQTT broker", 138)
          /\ UNCHANGED <<mu, conn, nsock, sock, pc, rpc, rsock, connackSeen>>
       \/ /\ ~connected
          /\ nsock < MaxConnects
          /\ LET s == nsock + 1
             IN  /\ nsock' = s
                 /\ sock' = [sock EXCEPT ![s] = "up"]
                 /\ conn' = s
                 /\ rpc' = [rpc EXCEPT ![s] = readLoop]
                 /\ rsock' = [rsock EXCEPT ![s] = IF readLoop = "reading" THEN s ELSE NoSock]
          /\ connackSeen' = FALSE
          /\ mu' = c
          /\ pc' = [pc EXCEPT ![c] = "sendConnect"]
          /\ ret' = NoReturn
    /\ sent' = NoWrite /\ NoDispatch
    /\ UNCHANGED <<connected, packetID, messageHandler, pingTicker, stopChan,
                   panicked, chanVars, inq, cpid, rframe, kpc, expired, nframes>>

\* Connect (mqtt.go 146-150) and sendConnect (176-197): write the CONNECT frame.
sendConnect(c) ==
    /\ Alive
    /\ pc[c] = "sendConnect"
    /\ Write(Frame("CONNECT", 0, 0, 0, <<>>, FALSE))
    /\ IF CanWrite(conn)
       THEN /\ pc' = [pc EXCEPT ![c] = "waitConnack"]
            /\ ret' = NoReturn
            /\ UNCHANGED <<mu, sock, inq>>
       ELSE /\ Close(conn)
            /\ Returned("failed to send CONNECT", 149)
            /\ pc' = [pc EXCEPT ![c] = "idle"]
            /\ mu' = Free
    /\ NoDispatch
    /\ UNCHANGED <<conn, connected, packetID, messageHandler, pingTicker,
                   stopChan, panicked, chanVars, nsock, cpid, readerVars, kpc, histVars>>

\* startKeepAlive (mqtt.go 722-725): a new ticker and a new goroutine.
startKeepAlive(k) ==
    /\ pingTicker' = "running"
    /\ kpc' = [kpc EXCEPT ![k] = "wait"]

\* Connect (mqtt.go 157): fmt.Errorf("connection refused, code: %d", ReturnCode).
Refused(rc) == "connection refused, code: " \o ToString(rc)

\* Connect with startKeepAlive called before the test of the return code.
ConnectConnackEager(c) ==
    /\ Alive
    /\ pc[c] = "waitConnack"
    /\ connackChan # <<>>
    /\ connackChan' = Tail(connackChan)
    /\ startKeepAlive(conn)
    /\ IF Head(connackChan) # 0
       THEN /\ Close(conn)
            /\ Returned(Refused(Head(connackChan)), 157)
            /\ UNCHANGED connected
       ELSE /\ connected' = TRUE
            /\ Returned("nil", 172)
            /\ UNCHANGED <<sock, inq>>
    /\ pc' = [pc EXCEPT ![c] = "idle"]
    /\ mu' = Free
    /\ sent' = NoWrite /\ NoDispatch
    /\ UNCHANGED <<conn, packetID, messageHandler, stopChan, panicked,
                   pubackChan, subackChan, nsock, cpid, readerVars, histVars>>

\* Connect (mqtt.go 153-161, 167-172): a CONNACK is received from connackChan.
ConnectConnack(c) ==
    /\ Alive
    /\ pc[c] = "waitConnack"
    /\ connackChan # <<>>
    /\ connackChan' = Tail(connackChan)
    /\ IF Head(connackChan) # 0
       THEN /\ Close(conn)
            /\ Returned(Refused(Head(connackChan)), 157)
            /\ UNCHANGED <<connected, pingTicker, kpc>>
       ELSE /\ connected' = TRUE
            /\ startKeepAlive(conn)
            /\ Returned("nil", 172)
            /\ UNCHANGED <<sock, inq>>
    /\ pc' = [pc EXCEPT ![c] = "idle"]
    /\ mu' = Free
    /\ sent' = NoWrite /\ NoDispatch
    /\ UNCHANGED <<conn, packetID, messageHandler, stopChan, panicked,
                   pubackChan, subackChan, nsock, cpid, readerVars, histVars>>

\* The timeout branch of Connect without its m.conn.Close() (mqtt.go 163).
ConnectTimeoutNoClose(c, timely) ==
    /\ Alive
    /\ pc[c] = "waitConnack"
    /\ TimerExpires(timely, connackChan)
    /\ Returned("CONNACK timeout", 164)
    /\ pc' = [pc EXCEPT ![c] = "idle"]
    /\ mu' = Free
    /\ sent' = NoWrite /\ NoDispatch
    /\ UNCHANGED <<conn, connected, packetID, messageHandler, pingTicker,
                   stopChan, panicked, chanVars, sockVars, cpid, readerVars, kpc, histVars>>

\* Connect (mqtt.go 162-164): the 10 s timer expires.
ConnectTimeout(c, timely) ==
    /\ Alive
    /\ pc[c] = "waitConnack"
    /\ TimerExpires(timely, connackChan)
    /\ Close(conn)
    /\ Returned("CONNACK timeout", 164)
    /\ pc' = [pc EXCEPT ![c] = "idle"]
    /\ mu' = Free
    /\ sent' = NoWrite /\ NoDispatch
    /\ UNCHANGED <<conn, connected, packetID, messageHandler, pingTicker,
                   stopChan, panicked, chanVars, nsock, cpid, readerVars, kpc, histVars>>

\* Disconnect without the test of m.connected (mqtt.go 769-771).
DisconnectAlways(c) ==
    /\ Alive
    /\ c = "app"
    /\ pc[c] = "idle" /\ mu = Free
    /\ conn # NoSock
    /\ Write(Frame("DISCONNECT", 0, 0, 0, <<>>, FALSE))
    /\ IF stopChan = "closed"
       THEN /\ panicked' = TRUE
            /\ ret' = NoReturn
            /\ UNCHANGED <<stopChan, connected, sock, inq>>
       ELSE /\ stopChan' = "closed"
            /\ connected' = FALSE
            /\ Close(conn)
            /\ Returned(IF IsOpen(conn) THEN "nil" ELSE "use of closed network connection", 782)
            /\ UNCHANGED panicked
    /\ NoDispatch
    /\ UNCHANGED <<mu, conn, packetID, messageHandler, pingTicker, chanVars,
                   nsock, pc, cpid, readerVars, kpc, histVars>>

\* Disconnect (mqtt.go 765-783).  close(m.stopChan) on a closed channel panics.
Disconnect(c) ==
    /\ Alive
    /\ c = "app"
    /\ pc[c] = "idle" /\ mu = Free
    /\ IF ~connected
       THEN /\ Returned("nil", 770)
            /\ sent' = NoWrite
            /\ UNCHANGED <<stopChan, connected, sock, inq, panicked>>
       ELSE /\ Write(Frame("DISCONNECT", 0, 0, 0, <<>>, FALSE))
            /\ IF stopChan = "closed"
               THEN /\ panicked' = TRUE
                    /\ ret' = NoReturn
                    /\ UNCHANGED <<stopChan, connected, sock, inq>>
               ELSE /\ stopChan' = "closed"
                    /\ connected' = FALSE
                    /\ Close(conn)
                    /\ Returned(IF IsOpen(conn) THEN "nil" ELSE "use of closed network connection", 782)
                    /\ UNCHANGED panicked
    /\ NoDispatch
    /\ UNCHANGED <<mu, conn, packetID, messageHandler, pingTicker, chanVars,
                   nsock, pc, cpid, readerVars, kpc, histVars>>

\* Publish without the test `if qos > 0` (mqtt.go 619): an identifier is
\* allocated and written whatever the QoS.
PublishAlwaysId(c, qos) ==
    /\ Alive
    /\ c = "app"
    /\ pc[c] = "idle" /\ mu = Free
    /\ IF ~connected
       THEN /\ Returned("not connected", 608)
            /\ sent' = NoWrite
            /\ UNCHANGED <<mu, packetID, pc, cpid>>
       ELSE /\ qos > 0 => packetID < MaxPid
            /\ LET id == nextPacketID(packetID)
               IN  /\ packetID' = id
                   /\ Write(Frame("PUBLISH", id, 0, qos, <<>>, FALSE))
                   /\ IF CanWrite(conn)
                      THEN IF qos = 1
                           THEN /\ pc' = [pc EXCEPT ![c] = "waitPuback"]
                                /\ cpid' = [cpid EXCEPT ![c] = id]
                                /\ mu' = c
                                /\ ret' = NoReturn
                           ELSE /\ Returned("nil", 663)
                                /\ UNCHANGED <<pc, cpid, mu>>
                      ELSE /\ Returned("write error", 648)
                           /\ UNCHANGED <<pc, cpid, mu>>
    /\ NoDispatch
    /\ UNCHANGED <<conn, connected, messageHandler, pingTicker, stopChan,
                   panicked, chanVars, sockVars, readerVars, kpc, histVars>>

\* Publish (mqtt.go 603-649): lock, check, allocate, write.  The lock is held
\* until Publish returns.
Publish(c, qos) ==
    /\ Alive
    /\ c = "app"
    /\ pc[c] = "idle" /\ mu = Free
    /\ IF ~connected
       THEN /\ Returned("not connected", 608)
            /\ sent' = NoWrite
            /\ UNCHANGED <<mu, packetID, pc, cpid>>
       ELSE /\ qos > 0 => packetID < MaxPid
            /\ LET id == IF qos > 0 THEN nextPacketID(packetID) ELSE 0
               IN  /\ packetID' = IF qos > 0 THEN id ELSE packetID
                   /\ Write(Frame("PUBLISH", id, 0, qos, <<>>, FALSE))
                   /\ IF CanWrite(conn)
                      THEN IF qos = 1
                           THEN /\ pc' = [pc EXCEPT ![c] = "waitPuback"]
                                /\ cpid' = [cpid EXCEPT ![c] = id]
                                /\ mu' = c
                                /\ ret' = NoReturn
                           ELSE /\ Returned("nil", 663)
                                /\ UNCHANGED <<pc, cpid, mu>>
                      ELSE /\ Returned("write error", 648)
                           /\ UNCHANGED <<pc, cpid, mu>>
    /\ NoDispatch
    /\ UNCHANGED <<conn, connected, messageHandler, pingTicker, stopChan,
                   panicked, chanVars, sockVars, readerVars, kpc, histVars>>

\* Publish (mqtt.go 652-657, 663): an identifier is received from pubackChan.
PublishPuback(c) ==
    /\ Alive
    /\ pc[c] = "waitPuback"
    /\ pubackChan # <<>>
    /\ pubackChan' = Tail(pubackChan)
    /\ IF Head(pubackChan) # cpid[c]
       THEN Returned("PUBACK packet ID mismatch", 656)
       ELSE Returned("nil", 663)
    /\ pc' = [pc EXCEPT ![c] = "idle"]
    /\ cpid' = [cpid EXCEPT ![c] = 0]
    /\ mu' = Free
    /\ sent' = NoWrite /\ NoDispatch
    /\ UNCHANGED <<conn, connected, packetID, messageHandler, pingTicker,
                   stopChan, panicked, connackChan, subackChan, sockVars,
                   readerVars, kpc, histVars>>

\* Publish whose timer branch (mqtt.go 658-659) falls through to the final
\* return nil.
PublishTimeoutSilent(c, timely) ==
    /\ Alive
    /\ pc[c] = "waitPuback"
    /\ TimerExpires(timely, pubackChan)
    /\ expired' = expired \cup {cpid[c]}
    /\ Returned("nil", 663)
    /\ pc' = [pc EXCEPT ![c] = "idle"]
    /\ cpid' = [cpid EXCEPT ![c] = 0]
    /\ mu' = Free
    /\ sent' = NoWrite /\ NoDispatch
    /\ UNCHANGED <<conn, connected, packetID, messageHandler, pingTicker,
                   stopChan, panicked, chanVars, sockVars, readerVars, kpc,
                   connackSeen, nframes>>

\* Publish (mqtt.go 658-659): the 10 s timer expires.
PublishTimeout(c, timely) ==
    /\ Alive
    /\ pc[c] = "waitPuback"
    /\ TimerExpires(timely, pubackChan)
    /\ expired' = expired \cup {cpid[c]}
    /\ Returned("PUBACK timeout", 659)
    /\ pc' = [pc EXCEPT ![c] = "idle"]
    /\ cpid' = [cpid EXCEPT ![c] = 0]
    /\ mu' = Free
    /\ sent' = NoWrite /\ NoDispatch
    /\ UNCHANGED <<conn, connected, packetID, messageHandler, pingTicker,
                   stopChan, panicked, chanVars, sockVars, readerVars, kpc,
                   connackSeen, nframes>>

\* Subscribe calling m.nextPacketID() without m.mu.Lock() (mqtt.go 546-548).
SubscribeUnlocked(c) ==
    /\ Alive
    /\ pc[c] = "idle"
    /\ packetID < MaxPid
    /\ packetID' = nextPacketID(packetID)
    /\ cpid' = [cpid EXCEPT ![c] = nextPacketID(packetID)]
    /\ pc' = [pc EXCEPT ![c] = "subscribeWrite"]
    /\ Quiet
    /\ UNCHANGED <<mu, conn, connected, messageHandler, pingTicker, stopChan,
                   panicked, chanVars, sockVars, readerVars, kpc, histVars>>

\* Subscribe (mqtt.go 546-548): the identifier is allocated under the lock.
Subscribe(c) ==
    /\ Alive
    /\ pc[c] = "idle" /\ mu = Free
    /\ packetID < MaxPid
    /\ packetID' = nextPacketID(packetID)
    /\ cpid' = [cpid EXCEPT ![c] = nextPacketID(packetID)]
    /\ pc' = [pc EXCEPT ![c] = "subscribeWrite"]
    /\ Quiet
    /\ UNCHANGED <<mu, conn, connected, messageHandler, pingTicker, stopChan,
                   panicked, chanVars, sockVars, readerVars, kpc, histVars>>

\* Subscribe (mqtt.go 576-582): the frame is written under the lock; m.conn is
\* dereferenced whether or not a socket was ever dialed.
SubscribeWrite(c) ==
    /\ Alive
    /\ pc[c] = "subscribeWrite" /\ mu = Free
    /\ IF conn = NoSock
       THEN /\ panicked' = TRUE
            /\ ret' = NoReturn /\ sent' = NoWrite
            /\ UNCHANGED <<pc, cpid>>
       ELSE /\ Write(Frame("SUBSCRIBE", cpid[c], 0, 1, <<>>, FALSE))
            /\ IF CanWrite(conn)
               THEN /\ pc' = [pc EXCEPT ![c] = "waitSuback"]
                    /\ ret' = NoReturn
                    /\ UNCHANGED cpid
               ELSE /\ Returned("write error", 581)
                    /\ pc' = [pc EXCEPT ![c] = "idle"]
                    /\ cpid' = [cpid EXCEPT ![c] = 0]
            /\ UNCHANGED panicked
    /\ NoDispatch
    /\ UNCHANGED <<mu, conn, connected, packetID, messageHandler, pingTicker,
                   stopChan, chanVars, sockVars, readerVars, kpc, histVars>>

\* Subscribe that looks at the first return code of the SUBACK only
\* (mqtt.go 590-594 without the loop).
SubscribeSubackFirstCode(c) ==
    /\ Alive
    /\ pc[c] = "waitSuback"
    /\ subackChan # <<>>
    /\ subackChan' = Tail(subackChan)
    /\ IF Head(subackChan).id # cpid[c]
       THEN Returned("SUBACK packet ID mismatch", 588)
       ELSE IF Head(subackChan).codes[1] = 128
            THEN Returned("subscription failed", 592)
            ELSE Returned("nil", 599)
    /\ pc' = [pc EXCEPT ![c] = "idle"]
    /\ cpid' = [cpid EXCEPT ![c] = 0]
    /\ sent' = NoWrite /\ NoDispatch
    /\ UNCHANGED <<clientVars, connackChan, pubackChan, sockVars, readerVars,
                   kpc, histVars>>

\* Subscribe (mqtt.go 585-594, 599): a SUBACK is received from subackChan.
SubscribeSuback(c) ==
    /\ Alive
    /\ pc[c] = "waitSuback"
    /\ subackChan # <<>>
    /\ subackChan' = Tail(subackChan)
    /\ IF Head(subackChan).id # cpid[c]
       THEN Returned("SUBACK packet ID mismatch", 588)
       ELSE IF \E i \in 1 .. Len(Head(subackChan).codes) : Head(subackChan).codes[i] = 128
            THEN Returned("subscription failed", 592)
            ELSE Returned("nil", 599)
    /\ pc' = [pc EXCEPT ![c] = "idle"]
    /\ cpid' = [cpid EXCEPT ![c] = 0]
    /\ sent' = NoWrite /\ NoDispatch
    /\ UNCHANGED <<clientVars, connackChan, pubackChan, sockVars, readerVars,
                   kpc, histVars>>

\* Subscribe (mqtt.go 595-596): the 10 s timer expires.
SubscribeTimeout(c, timely) ==
    /\ Alive
    /\ pc[c] = "waitSuback"
    /\ TimerExpires(timely, subackChan)
    /\ expired' = expired \cup {cpid[c]}
    /\ Returned("SUBACK timeout", 596)
    /\ pc' = [pc EXCEPT ![c] = "idle"]
    /\ cpid' = [cpid EXCEPT ![c] = 0]
    /\ sent' = NoWrite /\ NoDispatch
    /\ UNCHANGED <<clientVars, chanVars, sockVars, readerVars, kpc,
                   connackSeen, nframes>>

\* SetMessageHandler (mqtt.go 686-690).
SetMessageHandler(c, handler) ==
    /\ Alive
    /\ c = "app"
    /\ pc[c] = "idle" /\ mu = Free
    /\ messageHandler' = handler
    /\ Quiet
    /\ UNCHANGED <<mu, conn, connected, packetID, pingTicker, stopChan,
                   panicked, chanVars, sockVars, callerVars, readerVars, kpc, histVars>>

\* ------------------------------------------------------------------------
\* The reader goroutine
\* ------------------------------------------------------------------------

\* processPacket (mqtt.go 382-403) with handleConnack (406-432), handlePuback
\* (490-507), handleSuback (510-531) and handlePublish (435-487): where the
\* reader is after the frame.  A QoS-1 PUBLISH leaves it in sendPuback, waiting
\* for the lock; an error takes it to handleDisconnect; a panic of
\* handlePublish on the two-byte body of a PUBLISH cut short ends the process.
processPacket(f) ==
    IF f.t = "PUBLISH" /\ f.short /\ handlePublishPayload(f.qos, 2, f.topicLen).panic
    THEN "panic"
    ELSE IF f.t = "MALFORMED" \/ f.short THEN "hd"
    ELSE IF f.t = "PUBLISH" /\ f.qos = 1 THEN "puback"
    ELSE readLoop

handleConnack(f) == TrySend(connackChan, f.rc, 1)

handlePuback(f) == TrySend(pubackChan, f.id, 10)

handleSuback(f) == TrySend(subackChan, [id |-> f.id, codes |-> f.codes], 1)

\* handlePublish (mqtt.go 480-483): the handler, if one is registered, is
\* started with the message read from socket s.
handlePublish(s) ==
    /\ called' = IF messageHandler
                 THEN [from |-> s, cur |-> conn, acked |-> connackSeen]
                 ELSE NoCall
    /\ handlers' = IF messageHandler THEN handlers + 1 ELSE handlers

\* Under the timely reading a caller blocked on a channel takes the value the
\* channel holds before the reader sends the next one.
ReceiverFirst(timely, where, ch) == timely => ~(Waiting(where) /\ ch # <<>>)

\* readPacket with a handlePublish that calls m.messageHandler itself, without
\* `go` (mqtt.go 482): the reader reads on only when no handler is running.
readPacketAfterHandler(r, timely) ==
    /\ handlers = 0
    /\ Alive
    /\ rpc[r] = "reading"
    /\ sock[rsock[r]] # "closed" /\ inq[rsock[r]] # <<>>
    /\ LET s == rsock[r]
           f == Head(inq[s])
       IN  /\ inq' = [inq EXCEPT ![s] = Tail(@)]
           /\ rpc' = [rpc EXCEPT ![r] = processPacket(f)]
           /\ rsock' = [rsock EXCEPT ![r] = IF processPacket(f) = "reading" THEN conn
                                            ELSE IF processPacket(f) = "off" THEN NoSock
                                            ELSE @]
           /\ rframe' = [rframe EXCEPT ![r] = IF processPacket(f) = "puback" THEN f ELSE NoFrame]
           /\ IF f.t = "PUBLISH" /\ ~f.short /\ f.qos # 1
              THEN handlePublish(s)
              ELSE NoDispatch
           /\ IF f.t = "CONNACK" /\ ~f.short
              THEN /\ ReceiverFirst(timely, "waitConnack", connackChan)
                   /\ connackChan' = handleConnack(f)
                   /\ connackSeen' = (connackSeen \/ (f.rc = 0 /\ s = conn))
                   /\ UNCHANGED <<pubackChan, subackChan>>
              ELSE IF f.t = "PUBACK" /\ ~f.short
              THEN /\ ReceiverFirst(timely, "waitPuback", pubackChan)
                   /\ pubackChan' = handlePuback(f)
                   /\ UNCHANGED <<connackChan, subackChan, connackSeen>>
              ELSE IF f.t = "SUBACK" /\ ~f.short
              THEN /\ ReceiverFirst(timely, "waitSuback", subackChan)
                   /\ subackChan' = handleSuback(f)
                   /\ UNCHANGED <<connackChan, pubackChan, connackSeen>>
              ELSE UNCHANGED <<chanVars, connackSeen>>
           /\ panicked' = (processPacket(f) = "panic")
    /\ ret' = NoReturn /\ sent' = NoWrite
    /\ UNCHANGED <<mu, conn, connected, packetID, messageHandler, pingTicker, stopChan,
                   nsock, sock, callerVars, kpc, expired, nframes>>

\* readPacket (mqtt.go 324-353) and processPacket: one frame is read from the
\* socket and processed.  The reader then samples m.conn for its next read.
readPacket(r, timely) ==
    /\ Alive
    /\ rpc[r] = "reading"
    /\ sock[rsock[r]] # "closed" /\ inq[rsock[r]] # <<>>
    /\ LET s == rsock[r]
           f == Head(inq[s])
       IN  /\ inq' = [inq EXCEPT ![s] = Tail(@)]
           /\ rpc' = [rpc EXCEPT ![r] = processPacket(f)]
           /\ rsock' = [rsock EXCEPT ![r] = IF processPacket(f) = "reading" THEN conn
                                            ELSE IF processPacket(f) = "off" THEN NoSock
                                            ELSE @]
           /\ rframe' = [rframe EXCEPT ![r] = IF processPacket(f) = "puback" THEN f ELSE NoFrame]
           /\ IF f.t = "PUBLISH" /\ ~f.short /\ f.qos # 1
              THEN handlePublish(s)
              ELSE NoDispatch
           /\ IF f.t = "CONNACK" /\ ~f.short
              THEN /\ ReceiverFirst(timely, "waitConnack", connackChan)
                   /\ connackChan' = handleConnack(f)
                   /\ connackSeen' = (connackSeen \/ (f.rc = 0 /\ s = conn))
                   /\ UNCHANGED <<pubackChan, subackChan>>
              ELSE IF f.t = "PUBACK" /\ ~f.short
              THEN /\ ReceiverFirst(timely, "waitPuback", pubackChan)
                   /\ pubackChan' = handlePuback(f)
                   /\ UNCHANGED <<connackChan, subackChan, connackSeen>>
              ELSE IF f.t = "SUBACK" /\ ~f.short
              THEN /\ ReceiverFirst(timely, "waitSuback", subackChan)
                   /\ subackChan' = handleSuback(f)
                   /\ UNCHANGED <<connackChan, pubackChan, connackSeen>>
              ELSE UNCHANGED <<chanVars, connackSeen>>
           /\ panicked' = (processPacket(f) = "panic")
    /\ ret' = NoReturn /\ sent' = NoWrite
    /\ UNCHANGED <<mu, conn, connected, packetID, messageHandler, pingTicker, stopChan,
                   nsock, sock, callerVars, kpc, expired, nframes>>

\* handleDisconnect without its m.conn.Close() (mqtt.go 755-757).
handleDisconnectNoClose ==
    /\ mu = Free
    /\ connected' = FALSE
    /\ UNCHANGED <<sock, inq>>

\* handleDisconnect (mqtt.go 746-762), as the body shared by its callers.
handleDisconnect ==
    /\ mu = Free
    /\ IF connected
       THEN /\ connected' = FALSE
            /\ Close(conn)
       ELSE UNCHANGED <<connected, sock, inq>>

\* The reader leaves through handleDisconnect (readLoop, mqtt.go 312-318).
readerExit(r) ==
    /\ handleDisconnect
    /\ rpc' = [rpc EXCEPT ![r] = "off"]
    /\ rsock' = [rsock EXCEPT ![r] = NoSock]
    /\ Quiet
    /\ UNCHANGED <<mu, conn, packetID, messageHandler, pingTicker, stopChan,
                   panicked, chanVars, nsock, callerVars, rframe, kpc, histVars>>

\* readPacket (mqtt.go 328-331) fails in the read of the first byte, and
\* readLoop (312-318) ends the reader through handleDisconnect.  The error is
\* final once the socket is closed or drained, so the failed read is taken
\* together with the lock handleDisconnect waits for.
readError(r) ==
    /\ Alive
    /\ rpc[r] = "reading"
    /\ ReadFails(r)
    /\ readerExit(r)

\* readPacket (mqtt.go 326): the read deadline of two keepalive intervals
\* passes with no byte to read, and the reader ends through handleDisconnect.
readDeadline(r, timely) ==
    /\ Alive
    /\ rpc[r] = "reading"
    /\ sock[rsock[r]] = "up" /\ inq[rsock[r]] = <<>>
    /\ TimerExpires(timely, <<>>)
    /\ readerExit(r)

\* readLoop (mqtt.go 312-318): a frame that could not be read or processed
\* ends the reader through handleDisconnect.
readLoopDisconnect(r) ==
    /\ Alive
    /\ rpc[r] = "hd"
    /\ readerExit(r)

\* handlePublish that acknowledges only what it dispatches (mqtt.go 475-483
\* with the PUBACK inside the test of m.messageHandler).
sendPubackIfHandler(r) ==
    /\ Alive
    /\ rpc[r] = "puback" /\ mu = Free
    /\ IF messageHandler
       THEN Write(Frame("PUBACK", rframe[r].id, 0, 0, <<>>, FALSE))
       ELSE sent' = NoWrite
    /\ handlePublish(rsock[r])
    /\ rpc' = [rpc EXCEPT ![r] = readLoop]
    /\ rsock' = [rsock EXCEPT ![r] = IF readLoop = "reading" THEN conn ELSE NoSock]
    /\ rframe' = [rframe EXCEPT ![r] = NoFrame]
    /\ ret' = NoReturn
    /\ UNCHANGED <<clientVars, chanVars, sockVars, callerVars, kpc, histVars>>

\* sendPuback without m.mu.Lock() (mqtt.go 699-701): the PUBACK is written
\* whoever holds the lock.
sendPubackUnlocked(r) ==
    /\ Alive
    /\ rpc[r] = "puback"
    /\ Write(Frame("PUBACK", rframe[r].id, 0, 0, <<>>, FALSE))
    /\ handlePublish(rsock[r])
    /\ rpc' = [rpc EXCEPT ![r] = readLoop]
    /\ rsock' = [rsock EXCEPT ![r] = IF readLoop = "reading" THEN conn ELSE NoSock]
    /\ rframe' = [rframe EXCEPT ![r] = NoFrame]
    /\ ret' = NoReturn
    /\ UNCHANGED <<clientVars, chanVars, sockVars, callerVars, kpc, histVars>>

\* sendPuback (mqtt.go 693-704), called by handlePublish for QoS 1 (475-478):
\* the write is made under the lock and its error is dropped; the handler is
\* started and the reader goes back to the top of its loop.
sendPuback(r) ==
    /\ Alive
    /\ rpc[r] = "puback" /\ mu = Free
    /\ Write(Frame("PUBACK", rframe[r].id, 0, 0, <<>>, FALSE))
    /\ handlePublish(rsock[r])
    /\ rpc' = [rpc EXCEPT ![r] = readLoop]
    /\ rsock' = [rsock EXCEPT ![r] = IF readLoop = "reading" THEN conn ELSE NoSock]
    /\ rframe' = [rframe EXCEPT ![r] = NoFrame]
    /\ ret' = NoReturn
    /\ UNCHANGED <<clientVars, chanVars, sockVars, callerVars, kpc, histVars>>

\* ------------------------------------------------------------------------
\* The keepalive goroutine
\* ------------------------------------------------------------------------

\* startKeepAlive (mqtt.go 727-730): the stop signal is seen.
keepAliveStop(k) ==
    /\ Alive
    /\ kpc[k] = "wait"
    /\ stopChan = "closed"
    /\ pingTicker' = "stopped"
    /\ kpc' = [kpc EXCEPT ![k] = "off"]
    /\ Quiet
    /\ UNCHANGED <<mu, conn, connected, packetID, messageHandler, stopChan,
                   panicked, chanVars, sockVars, callerVars, readerVars, histVars>>

\* startKeepAlive (mqtt.go 731-739) and sendPingreq (707-719): the ticker
\* m.pingTicker names fires and the PINGREQ is written under the lock.
sendPingreq(k, timely) ==
    /\ Alive
    /\ kpc[k] = "wait"
    /\ pingTicker = "running"
    /\ TimerExpires(timely, <<>>)
    /\ mu = Free
    /\ Write(Frame("PINGREQ", 0, 0, 0, <<>>, FALSE))
    /\ kpc' = [kpc EXCEPT ![k] = IF CanWrite(conn) THEN "wait" ELSE "hd"]
    /\ ret' = NoReturn /\ NoDispatch
    /\ UNCHANGED <<clientVars, chanVars, sockVars, callerVars, readerVars, histVars>>

\* startKeepAlive returning after a failed ping without its call of
\* handleDisconnect (mqtt.go 736).
keepAliveReturn(k) ==
    /\ Alive
    /\ kpc[k] = "hd"
    /\ mu = Free
    /\ kpc' = [kpc EXCEPT ![k] = "off"]
    /\ Quiet
    /\ UNCHANGED <<clientVars, chanVars, sockVars, callerVars, readerVars, histVars>>

\* startKeepAlive (mqtt.go 736-737): a failed ping ends the goroutine through
\* handleDisconnect.
keepAliveDisconnect(k) ==
    /\ Alive
    /\ kpc[k] = "hd"
    /\ handleDisconnect
    /\ kpc' = [kpc EXCEPT ![k] = "off"]
    /\ Quiet
    /\ UNCHANGED <<mu, conn, packetID, messageHandler, pingTicker, stopChan,
                   panicked, chanVars, nsock, callerVars, readerVars, histVars>>

\* ------------------------------------------------------------------------
\* The broker and the network
\* ------------------------------------------------------------------------

\* The broker sends a frame on a socket that is up.
BrokerSend(s, f) ==
    /\ Alive
    /\ sock[s] = "up"
    /\ nframes < MaxFrames
    /\ inq' = [inq EXCEPT ![s] = Append(@, f)]
    /\ nframes' = nframes + 1
    /\ Quiet
    /\ UNCHANGED <<clientVars, chanVars, nsock, sock, callerVars, readerVars, kpc,
                   connackSeen, expired>>

\* The connection is lost: the peer or the network cuts the socket.
NetDrop(s) ==
    /\ Alive
    /\ sock[s] = "up"
    /\ sock' = [sock EXCEPT ![s] = "down"]
    /\ Quiet
    /\ UNCHANGED <<clientVars, chanVars, nsock, inq, callerVars, readerVars, kpc, histVars>>

\* ------------------------------------------------------------------------
\* Specifications
\* ------------------------------------------------------------------------

CallerStep(timely) ==
    \E c \in Callers :
        \/ Connect(c)
        \/ sendConnect(c)
        \/ ConnectConnack(c)
        \/ ConnectTimeout(c, timely)
        \/ Disconnect(c)
        \/ \E qos \in {0, 1} : Publish(c, qos)
        \/ PublishPuback(c)
        \/ PublishTimeout(c, timely)
        \/ Subscribe(c)
        \/ SubscribeWrite(c)
        \/ SubscribeSuback(c)
        \/ SubscribeTimeout(c, timely)
        \/ SetMessageHandler(c, TRUE)

ReaderStep(timely) ==
    \E r \in Tasks :
        \/ readPacket(r, timely)
        \/ readError(r)
        \/ readDeadline(r, timely)
        \/ sendPuback(r)
        \/ readLoopDisconnect(r)

KeepAliveStep(timely) ==
    \E k \in Tasks :
        \/ keepAliveStop(k)
        \/ sendPingreq(k, timely)
        \/ keepAliveDisconnect(k)

NetworkStep ==
    \E s \in Sockets :
        \/ \E f \in BrokerFrames : BrokerSend(s, f)
        \/ NetDrop(s)

Step(timely) ==
    \/ CallerStep(timely)
    \/ ReaderStep(timely)
    \/ KeepAliveStep(timely)
    \/ NetworkStep

Next == Step(FALSE)

TimelyNext == Step(TRUE)

Spec == Init /\ [][Next]_vars

TimelySpec == Init /\ [][TimelyNext]_vars

CodecSpec == CodecInit /\ [][CodecNext]_vars

\* ------------------------------------------------------------------------
\* The packet handlers and the allocator, one call at a time
\* ------------------------------------------------------------------------

HandlerCall(fn, qos, n, topicLen) ==
    [fn |-> fn, qos |-> qos, len |-> n, topicLen |-> topicLen, counter |-> 0,
     zlib |-> "none"]

\* The calls examined: each handler on every body length (a PUBLISH body of
\* two bytes or more with every sampled prefix and QoS, and every form its
\* message payload can have for zlib), the allocator on
\* every value of the counter, the writers of length-prefixed fields on
\* every sampled field length.
HandlerStart ==
    /\ hres = NoResult
    /\ allocated = NoAllocs
    /\ \/ \E fn \in {"handleConnack", "handlePuback", "handleSuback"}, n \in 0 .. MaxBody :
             hcall = HandlerCall(fn, 0, n, 0)
       \/ \E q \in QosBits, n \in 0 .. 1 :
             hcall = HandlerCall("handlePublish", q, n, 0)
       \/ \E q \in QosBits, n \in 2 .. MaxBody, t \in TopicLenSamples :
             \E z \in ZlibForms(PayloadLen(q, n, t)) :
                hcall = [HandlerCall("handlePublish", q, n, t) EXCEPT !.zlib = z]
       \/ \E p \in 0 .. MaxUint16 :
             hcall = [NoHandlerCall EXCEPT !.fn = "nextPacketID", !.counter = p]
       \/ \E fn \in {"buildConnectPacket", "Subscribe", "Publish"}, n \in FieldLenSamples :
             hcall = HandlerCall(fn, 0, n, 0)

HandlerInit == CodecOff /\ MainInit /\ HandlerStart

callHandleConnack ==
    /\ hcall.fn = "handleConnack" /\ ~hres.done
    /\ hres' = handleConnackPayload(hcall.len)
    /\ UNCHANGED <<codecVars, mainVars, hcall, allocated>>

callHandlePuback ==
    /\ hcall.fn = "handlePuback" /\ ~hres.done
    /\ hres' = handlePubackPayload(hcall.len)
    /\ UNCHANGED <<codecVars, mainVars, hcall, allocated>>

callHandleSuback ==
    /\ hcall.fn = "handleSuback" /\ ~hres.done
    /\ hres' = handleSubackPayload(hcall.len)
    /\ UNCHANGED <<codecVars, mainVars, hcall, allocated>>

callHandlePublish ==
    /\ hcall.fn = "handlePublish" /\ ~hres.done
    /\ hres' = handlePublishMessage(hcall.qos, hcall.len, hcall.topicLen, hcall.zlib)
    /\ UNCHANGED <<codecVars, mainVars, hcall, allocated>>

\* m.nextPacketID() with m.packetID = hcall.counter.
callNextPacketID ==
    /\ hcall.fn = "nextPacketID" /\ ~hres.done
    /\ hres' = [NoResult EXCEPT !.done = TRUE, !.err = "nil",
                                !.value = nextPacketID(hcall.counter)]
    /\ UNCHANGED <<codecVars, mainVars, hcall, allocated>>

\* buildConnectPacket (mqtt.go 268-269) on a session blob of hcall.len bytes.
callBuildConnectPacket ==
    /\ hcall.fn = "buildConnectPacket" /\ ~hres.done
    /\ hres' = writeLengthPrefixed(hcall.len)
    /\ UNCHANGED <<codecVars, mainVars, hcall, allocated>>

\* Subscribe (mqtt.go 559-563) on a topic of hcall.len bytes.
callSubscribeTopic ==
    /\ hcall.fn = "Subscribe" /\ ~hres.done
    /\ hres' = writeLengthPrefixed(hcall.len)
    /\ UNCHANGED <<codecVars, mainVars, hcall, allocated>>

\* Publish (mqtt.go 614-615) on a topic of hcall.len bytes.
callPublishTopic ==
    /\ hcall.fn = "Publish" /\ ~hres.done
    /\ hres' = writeLengthPrefixed(hcall.len)
    /\ UNCHANGED <<codecVars, mainVars, hcall, allocated>>

HandlerNext ==
    \/ callBuildConnectPacket
    \/ callSubscribeTopic
    \/ callPublishTopic
    \/ callHandleConnack
    \/ callHandlePuback
    \/ callHandleSuback
    \/ callHandlePublish
    \/ callNextPacketID

HandlerSpec == HandlerInit /\ [][HandlerNext]_vars

\* ------------------------------------------------------------------------
\* Allocation of packet identifiers by concurrent callers
\* ------------------------------------------------------------------------

\* Allocations in a run: one full cycle of the counter and a few more.
MaxAllocs == 65538

\* The worker's subscribes are among the first MaxEarly allocations of a run;
\* the requests they start may stay outstanding for the rest of it.
MaxEarly == 2

\* The latest MaxRecent identifiers are kept.
MaxRecent == 3

\* The client right after a successful Connect (mqtt.go 167-172): connected,
\* reader and keepalive running, the counter at its initial 0, no call in
\* progress.
ConnectedIdle ==
    /\ mu = Free /\ conn = 1 /\ connected = TRUE /\ packetID = 0
    /\ messageHandler = FALSE /\ pingTicker = "running" /\ stopChan = "open"
    /\ connackChan = <<>> /\ pubackChan = <<>> /\ subackChan = <<>>
    /\ panicked = FALSE
    /\ nsock = 1
    /\ sock = [s \in Sockets |-> IF s = 1 THEN "up" ELSE "none"]
    /\ inq = [s \in Sockets |-> <<>>]
    /\ pc = [c \in Callers |-> "idle"]
    /\ cpid = [c \in Callers |-> 0]
    /\ rpc = [r \in Tasks |-> IF r = 1 THEN "reading" ELSE "off"]
    /\ rsock = [r \in Tasks |-> IF r = 1 THEN 1 ELSE NoSock]
    /\ rframe = [r \in Tasks |-> NoFrame]
    /\ kpc = [k \in Tasks |-> IF k = 1 THEN "wait" ELSE "off"]
    /\ ret = [err |-> "nil", line |-> 172]
    /\ sent = NoWrite
    /\ called = NoCall
    /\ connackSeen = TRUE
    /\ expired = {}
    /\ nframes = 1
    /\ handlers = 0

AllocInit ==
    /\ CodecOff
    /\ ConnectedIdle
    /\ hcall = NoHandlerCall /\ hres = NoResult /\ allocated = NoAllocs

\* The identifier id has been returned by nextPacketID.
Allocated(id) ==
    allocated' = [n |-> allocated.n + 1,
                  first |-> IF allocated.n = 0 THEN id ELSE allocated.first,
                  recent |-> IF Len(allocated.recent) < MaxRecent
                             THEN Append(allocated.recent, id)
                             ELSE Append(Tail(allocated.recent), id)]

\* Subscribe (mqtt.go 546-548, 576-578): the identifier is allocated under the
\* lock, the SUBSCRIBE is written and the caller waits for its SUBACK.
SubscribeAllocates(c) ==
    /\ ~panicked
    /\ pc[c] = "idle" /\ mu = Free
    /\ allocated.n < MaxAllocs
    /\ c = "worker" => allocated.n < MaxEarly
    /\ packetID' = nextPacketID(packetID)
    /\ cpid' = [cpid EXCEPT ![c] = nextPacketID(packetID)]
    /\ pc' = [pc EXCEPT ![c] = "waitSuback"]
    /\ Allocated(nextPacketID(packetID))
    /\ UNCHANGED <<codecVars, hcall, hres>>
    /\ UNCHANGED <<mu, conn, connected, messageHandler, pingTicker, stopChan, panicked,
                   chanVars, sockVars, readerVars, kpc, eventVars, histVars, handlers>>

\* Subscribe (mqtt.go 585-599): the wait ends, with a SUBACK or by the timer.
SubscribeReturns(c) ==
    /\ ~panicked
    /\ pc[c] = "waitSuback"
    /\ pc' = [pc EXCEPT ![c] = "idle"]
    /\ cpid' = [cpid EXCEPT ![c] = 0]
    /\ UNCHANGED <<codecVars, unitVars>>
    /\ UNCHANGED <<clientVars, chanVars, sockVars, readerVars, kpc, eventVars, histVars, handlers>>

\* Publish (mqtt.go 604-622, 646-661) with QoS 1 or 2: the identifier is
\* allocated under the lock Publish holds until it returns; QoS 1 waits for
\* the PUBACK, QoS 2 returns at once.
PublishAllocates(c, qos) ==
    /\ ~panicked
    /\ c = "app"
    /\ pc[c] = "idle" /\ mu = Free
    /\ connected
    /\ allocated.n < MaxAllocs
    /\ packetID' = nextPacketID(packetID)
    /\ Allocated(nextPacketID(packetID))
    /\ IF qos = 1
       THEN /\ mu' = c
            /\ pc' = [pc EXCEPT ![c] = "waitPuback"]
            /\ cpid' = [cpid EXCEPT ![c] = nextPacketID(packetID)]
       ELSE UNCHANGED <<mu, pc, cpid>>
    /\ UNCHANGED <<codecVars, hcall, hres>>
    /\ UNCHANGED <<conn, connected, messageHandler, pingTicker, stopChan, panicked,
                   chanVars, sockVars, readerVars, kpc, eventVars, histVars, handlers>>

\* Publish (mqtt.go 651-663): the wait ends, with a PUBACK or by the timer.
PublishReturns(c) ==
    /\ ~panicked
    /\ pc[c] = "waitPuback"
    /\ pc' = [pc EXCEPT ![c] = "idle"]
    /\ cpid' = [cpid EXCEPT ![c] = 0]
    /\ mu' = Free
    /\ UNCHANGED <<codecVars, unitVars>>
    /\ UNCHANGED <<conn, connected, packetID, messageHandler, pingTicker, stopChan,
                   panicked, chanVars, sockVars, readerVars, kpc, eventVars, histVars, handlers>>

AllocNext ==
    \E c \in Callers :
        \/ SubscribeAllocates(c)
        \/ SubscribeReturns(c)
        \/ \E qos \in {1, 2} : PublishAllocates(c, qos)
        \/ PublishReturns(c)

AllocSpec == AllocInit /\ [][AllocNext]_vars

\* ------------------------------------------------------------------------
\* An established session
\* ------------------------------------------------------------------------

\* Frames the broker sends in a run, the CONNACK of the session included.
MaxSessionFrames == 3

\* The broker sends a frame on a socket that is up.
SessionSend(s, f) ==
    /\ Alive
    /\ sock[s] = "up"
    /\ nframes < MaxSessionFrames
    /\ inq' = [inq EXCEPT ![s] = Append(@, f)]
    /\ nframes' = nframes + 1
    /\ Quiet
    /\ UNCHANGED <<clientVars, chanVars, nsock, sock, callerVars, readerVars, kpc,
                   connackSeen, expired>>

SessionInit == CodecOff /\ ConnectedIdle /\ HandlerOff

SessionNetworkStep ==
    \E s \in Sockets :
        \/ \E f \in BrokerFrames : SessionSend(s, f)
        \/ NetDrop(s)

\* The calls made on the connection while it lasts; no further Connect.
SessionCallerStep ==
    \E c \in Callers :
        \/ Disconnect(c)
        \/ \E qos \in {0, 1} : Publish(c, qos)
        \/ PublishPuback(c)
        \/ PublishTimeout(c, TRUE)
        \/ Subscribe(c)
        \/ SubscribeWrite(c)
        \/ SubscribeSuback(c)
        \/ SubscribeTimeout(c, TRUE)
        \/ SetMessageHandler(c, TRUE)

SessionNext ==
    \/ SessionCallerStep
    \/ ReaderStep(TRUE)
    \/ KeepAliveStep(TRUE)
    \/ SessionNetworkStep

\* One connection from the end of its successful Connect to its end, timers
\* as in TimelySpec.
SessionSpec == SessionInit /\ [][SessionNext]_vars

\* ------------------------------------------------------------------------
\* Properties of the frame codec (checked under CodecSpec)
\* ------------------------------------------------------------------------

\* The decoder has finished with the frame: accepted, rejected, or out of bytes.
DecodeDone == decPc \in {"ok", "malformed", "eof"}

\* The length field the decoder was handed: the bytes it has consumed followed
\* by the bytes still on the wire.
Field == seen \o wire

RECURSIVE FieldValue(_)
\* The number a base-128 little-endian length field denotes.
FieldValue(f) ==
    IF f = <<>> THEN 0 ELSE (Head(f) % 128) + 128 * FieldValue(Tail(f))

\* C1: for every remaining length n in [0, 268435455], readRemainingLength run
\* on the bytes writeRemainingLength produced for n succeeds and returns n.
C1_RoundTrip ==
    (codecMode = "roundtrip" /\ encIn <= MaxRemainingLength /\ DecodeDone)
        => (decPc = "ok" /\ value = encIn)

\* C1: the round trip has run to its end on a value of the claimed range that
\* needs four length bytes.
C1_Witness ==
    /\ codecMode = "roundtrip" /\ DecodeDone
    /\ encIn <= MaxRemainingLength /\ Len(buf) = 4

\* C2: the decoder rejects a field as malformed only after more than 4 length
\* bytes; a field of 1 to 4 bytes whose last byte has the continuation bit
\* clear is accepted, and when the socket holds the body, exactly the number
\* of body bytes the field denotes is read.
C2_RejectsOnlyLongFields ==
    /\ decPc = "malformed" => Len(seen) > 4
    /\ ( /\ codecMode = "raw" /\ DecodeDone
         /\ Len(Field) <= 4 /\ Field[Len(Field)] < 128
         /\ FieldValue(Field) <= bodyAvail )
       => (decPc = "ok" /\ bodyRead = FieldValue(Field))

\* C2: the decoder has finished with a raw 4-byte field whose last byte has
\* the continuation bit clear and whose body is on the socket.
C2_Witness ==
    /\ codecMode = "raw" /\ DecodeDone
    /\ Len(Field) = 4 /\ Field[4] < 128
    /\ FieldValue(Field) <= bodyAvail

\* C3: a frame whose remaining length exceeds 268435455 is not encoded (the
\* encoder fails and writes nothing), and no length field of more than 4 bytes
\* is ever emitted.
C3_NoOversizedEncoding ==
    /\ Len(buf) <= 4
    /\ (codecMode = "publish" /\ encIn > MaxRemainingLength) => buf = <<>>

\* C3: Publish has encoded the length of a frame beyond the 4-byte capacity.
C3_Witness ==
    codecMode = "publish" /\ encIn > MaxRemainingLength /\ encPc = "done"

\* ------------------------------------------------------------------------
\* Properties of the client (checked under Spec and TimelySpec)
\* ------------------------------------------------------------------------

\* C4: no PUBLISH is dispatched to the registered handler before a CONNACK with
\* return code 0 has been received for the current connect attempt: whenever
\* the handler is started, such a CONNACK has been handled since the last dial.
C4_NoDispatchBeforeConnack == called # NoCall => called.acked

\* C4: the handler has been started for a PUBLISH while the connect call was
\* still waiting for its CONNACK.
C4_Witness == called # NoCall /\ pc["app"] = "waitConnack"

\* C5: a publish call that is waiting for its PUBACK when the connection is
\* lost does not wait out its timeout: no publish returns the timeout error on
\* a connection that is lost.
C5_LostNotTimeout == ret.line = 659 => sock[conn] = "up"

\* C5: a QoS-1 publish is waiting for its PUBACK on a connection that was cut.
C5_Witness ==
    \E c \in Callers : pc[c] = "waitPuback" /\ connected /\ sock[conn] = "down"

\* C6: an acknowledgment that arrives after its request has timed out is
\* dropped: no publish or subscribe call ever receives an acknowledgment whose
\* packet identifier belongs to a request that timed out.
C6_LateAckDropped ==
    [][\A c \in Callers :
          /\ PublishPuback(c) => Head(pubackChan) \notin expired
          /\ SubscribeSuback(c) => Head(subackChan).id \notin expired]_vars

\* C6: the acknowledgment of a request that timed out is in a channel while a
\* later call waits on that channel.
C6_Witness ==
    \/ pubackChan # <<>> /\ Head(pubackChan) \in expired /\ Waiting("waitPuback")
    \/ subackChan # <<>> /\ Head(subackChan).id \in expired /\ Waiting("waitSuback")

\* C7: acknowledgments are matched to waiting callers by packet identifier:
\* while two calls wait for the same kind of acknowledgment, a caller never
\* receives the acknowledgment that carries the packet identifier of the other
\* caller's request.
C7_MatchedByPacketId ==
    [][\A c \in Callers : \A d \in Callers \ {c} :
          /\ (PublishPuback(c) /\ pc[d] = "waitPuback") => Head(pubackChan) # cpid[d]
          /\ (SubscribeSuback(c) /\ pc[d] = "waitSuback") => Head(subackChan).id # cpid[d]]_vars

\* C7: two subscribe calls are outstanding at the same time.
C7_Witness == \A c \in Callers : pc[c] = "waitSuback"

\* The broker's answer to the CONNECT of the current attempt is a CONNACK with
\* return code 0, and it is the next frame to read on the attempt's socket.
AnsweredOK ==
    /\ conn # NoSock
    /\ inq[conn] # <<>>
    /\ Head(inq[conn]).t = "CONNACK" /\ Head(inq[conn]).rc = 0

\* C8: after disconnect() has completed, a fresh connect() that the broker
\* answers with CONNACK 0 reaches Connected: such a connect call does not end
\* without the client being connected.
C8_Reconnects ==
    [][\A c \in Callers :
          ( /\ stopChan = "closed"
            /\ pc[c] = "waitConnack" /\ pc'[c] = "idle"
            /\ AnsweredOK )
          => connected']_vars

\* C8: a connect call made after a completed disconnect() waits for its
\* CONNACK, and the broker has answered with return code 0.
C8_Witness ==
    stopChan = "closed" /\ pc["app"] = "waitConnack" /\ AnsweredOK

\* Reader and keepalive goroutines that have not returned.
Readers == { r \in Tasks : rpc[r] # "off" }

KeepAlives == { k \in Tasks : kpc[k] # "off" }

\* C9: at every moment at most one reader task and at most one keepalive task
\* is running for the client.
C9_OneReaderOneKeepAlive ==
    Cardinality(Readers) <= 1 /\ Cardinality(KeepAlives) <= 1

\* C9: the client is connected on its second socket, a later connection.
C9_Witness == connected /\ conn = 2 /\ kpc[2] = "wait"

\* C10 (as in the specification): connect() called while the client is
\* Connected fails with an error and opens no socket and sends no frame.
C10_ConnectedConnectFails ==
    [][\A c \in Callers :
          (connected /\ Connect(c))
          => /\ ret'.err \notin {"nil", "none"}
             /\ UNCHANGED <<conn, nsock, sock>>
             /\ sent' = NoWrite]_vars

\* C10 (amended): connect() called while the client is Connected returns nil
\* (no error), opens no socket, starts no task and sends no frame.
C10_ConnectedConnectNoOp ==
    [][\A c \in Callers :
          (connected /\ Connect(c))
          => /\ ret' = [err |-> "nil", line |-> 121]
             /\ UNCHANGED <<conn, nsock, sock, connected, rpc, kpc, pc, mu>>
             /\ sent' = NoWrite]_vars

\* C10: Connect has returned from its test of m.connected.
C10_Witness == ret = [err |-> "nil", line |-> 121] /\ connected

\* A connect attempt of caller c ends in this step.
AttemptEnds(c) == pc[c] = "waitConnack" /\ pc'[c] = "idle"

\* The attempt ends without a CONNACK received: its timer expired.
EndsByTimeout(c) == AttemptEnds(c) /\ connackChan' = connackChan

\* The attempt ends on the receipt of a CONNACK with a nonzero return code.
EndsRefused(c) ==
    /\ AttemptEnds(c)
    /\ connackChan # <<>> /\ connackChan' = Tail(connackChan)
    /\ Head(connackChan) # 0

\* C11: a connect attempt that ends by its timeout or by a CONNACK with a
\* nonzero return code returns an error, leaves the connected flag false and
\* the socket closed; the error of a refusal carries the return code.
C11_FailedConnect ==
    [][\A c \in Callers :
          /\ (EndsByTimeout(c) \/ EndsRefused(c))
             => /\ ret'.err \notin {"nil", "none"}
                /\ ~connected'
                /\ sock'[conn'] = "closed"
          /\ EndsRefused(c)
             => ret'.err = "connection refused, code: " \o ToString(Head(connackChan))]_vars

\* C11: a connect attempt has just been refused with return code 5.
C11_Witness ==
    /\ ret = [err |-> "connection refused, code: 5", line |-> 157]
    /\ ~connected /\ sock[conn] = "closed"

\* The attempt ends on the receipt of a CONNACK with return code 0.
EndsAccepted(c) ==
    /\ AttemptEnds(c)
    /\ connackChan # <<>> /\ connackChan' = Tail(connackChan)
    /\ Head(connackChan) = 0

\* C12: a keepalive task is started only by a connect call that has received
\* a CONNACK with return code 0; a connect call that returns nil from its wait
\* leaves the client connected with its keepalive task running; and no
\* PINGREQ is written while a connect attempt is in progress (so none during
\* an attempt that fails).
C12_KeepAliveAfterConnack ==
    [][/\ \A k \in Tasks :
            (kpc[k] = "off" /\ kpc'[k] # "off") => \E c \in Callers : EndsAccepted(c)
       /\ \A c \in Callers :
            (AttemptEnds(c) /\ ret'.err = "nil")
                => (connected' /\ kpc'[conn'] = "wait" /\ pingTicker' = "running")
       /\ sent'.frame.t = "PINGREQ"
            => \A c \in Callers : pc[c] \notin {"sendConnect", "waitConnack"}]_vars

\* C12: a connect call has just returned nil and its keepalive task runs.
C12_Witness ==
    /\ ret = [err |-> "nil", line |-> 172]
    /\ connected /\ kpc[conn] = "wait"

\* Sockets the client has opened and not closed.
OpenSockets == { s \in Sockets : IsOpen(s) }

\* C13: at most one socket opened by the client is open at any time: when
\* Connect stores a new socket, every socket opened before is closed.
C13_OneOpenSocket == Cardinality(OpenSockets) <= 1

\* C13: Connect has stored a second socket.
C13_Witness == nsock = 2 /\ conn = 2 /\ sock[2] = "up" /\ sock[1] = "closed"

\* C14: disconnect() called when the client is not connected (in particular
\* a second time in a row) returns nil, writes no frame, changes no state and
\* does not close the stop signal again (no panic).
C14_DisconnectIdempotent ==
    [][\A c \in Callers :
          (Disconnect(c) /\ ~connected)
          => /\ ret' = [err |-> "nil", line |-> 770]
             /\ sent' = NoWrite
             /\ ~panicked'
             /\ UNCHANGED <<clientVars, chanVars, sockVars, callerVars, readerVars, kpc>>]_vars

\* C14: disconnect() has returned from its test of m.connected after an
\* earlier disconnect() closed the stop signal.
C14_Witness ==
    ret = [err |-> "nil", line |-> 770] /\ stopChan = "closed" /\ ~connected

\* C15: disconnect() on a connected client completes: it leaves the connected
\* flag false, the socket closed and the stop signal given, on which the
\* reader and keepalive tasks terminate; the process goes on.
C15_DisconnectStops ==
    [][\A c \in Callers :
          (Disconnect(c) /\ connected)
          => /\ ~panicked'
             /\ ~connected'
             /\ sock'[conn] = "closed"
             /\ stopChan' = "closed"]_vars

\* C15: disconnect() has returned on a connected client whose reader and
\* keepalive tasks are still to terminate.
C15_Witness ==
    /\ ret = [err |-> "nil", line |-> 782]
    /\ Readers # {} /\ KeepAlives # {}

\* A task runs handleDisconnect in this step.
HandleDisconnectStep ==
    \E t \in Tasks :
        readError(t) \/ readDeadline(t, FALSE) \/ readLoopDisconnect(t) \/ keepAliveDisconnect(t)

\* The reader r runs handleDisconnect in this step, for the failure of the
\* socket rsock[r] it was reading.
ReaderDisconnects(r) ==
    readError(r) \/ readDeadline(r, FALSE) \/ readLoopDisconnect(r)

\* C16: the transition of handleDisconnect takes effect exactly once per
\* established connection.  A run of handleDisconnect on a connected client
\* clears the flag and closes the socket of the connection, which was open;
\* a run on a client that is not connected changes nothing; a closed socket
\* stays closed; and the failure of one connection takes down that connection
\* only: when the keepalive task (or disconnect()) has already taken the
\* connection down, the run of handleDisconnect by the reader that detected
\* the same failure has no effect.
C16_DisconnectOnce ==
    [][/\ HandleDisconnectStep
          => IF connected
             THEN ~connected' /\ IsOpen(conn) /\ sock'[conn] = "closed" /\ conn' = conn
             ELSE UNCHANGED <<clientVars, chanVars, sockVars>>
       /\ \A s \in Sockets : sock[s] = "closed" => sock'[s] = "closed"
       /\ \A r \in Tasks :
             (ReaderDisconnects(r) /\ sock[rsock[r]] = "closed")
             => UNCHANGED <<connected, sock>>]_vars

\* C16: the keepalive task has taken the first connection down through
\* handleDisconnect, and the reader of that connection, whose read fails on
\* the closed socket, has yet to run handleDisconnect as well.
C16_Witness ==
    /\ stopChan = "open" /\ nsock = 1 /\ conn = 1
    /\ ~connected /\ sock[1] = "closed"
    /\ kpc[1] = "off" /\ rpc[1] = "reading" /\ rsock[1] = 1

\* ------------------------------------------------------------------------
\* Properties of the handlers and the allocator (checked under HandlerSpec)
\* ------------------------------------------------------------------------

\* The body handed to the handler is shorter than its type's minimum.
ShortBody ==
    \/ hcall.fn \in {"handleConnack", "handlePuback"} /\ hcall.len < 2
    \/ hcall.fn = "handleSuback" /\ hcall.len < 3
    \/ /\ hcall.fn = "handlePublish"
       /\ \/ hcall.len < 2 + hcall.topicLen
          \/ hcall.qos > 0 /\ hcall.len < 2 + hcall.topicLen + 2

\* C17: a body shorter than its type's minimum makes the handler return an
\* error and send nothing to a waiting caller; it never succeeds silently.
C17_ShortBodyIsError ==
    (hres.done /\ ShortBody)
    => (~hres.panic /\ hres.err \notin {"nil", "none"} /\ ~hres.send)

\* C17: a handler has been run on a body shorter than its minimum.
C17_Witness ==
    hres.done /\ ShortBody /\ hcall.fn = "handleSuback" /\ hcall.len = 2

\* C18: for every PUBLISH body and every 16-bit topic-length prefix,
\* handlePublish either returns an error or reads the topic inside the body,
\* payload[2 : 2+topicLen] with 2+topicLen within the body; it never indexes
\* outside the body (no panic).
C18_TopicInsideBody ==
    (hres.done /\ hcall.fn = "handlePublish")
    => /\ ~hres.panic
       /\ \/ hres.err # "nil"
          \/ hres.hi = 2 + hcall.topicLen /\ hres.hi <= hcall.len

\* C18: handlePublish has been run on a body whose topic-length prefix is at
\* the upper end of the 16-bit range.
C18_Witness ==
    hres.done /\ hcall.fn = "handlePublish" /\ hcall.topicLen >= MaxUint16 - 1

\* C20: the allocator never returns 0, and the value that follows 65535 is 1,
\* whatever the counter was.
C20_NeverZero ==
    (hres.done /\ hcall.fn = "nextPacketID")
    => /\ hres.value \in 1 .. MaxUint16
       /\ hcall.counter = MaxUint16 => hres.value = 1
       /\ hcall.counter < MaxUint16 => hres.value = hcall.counter + 1

\* C20: the allocator has been run on a counter of 65535.
C20_Witness ==
    hres.done /\ hcall.fn = "nextPacketID" /\ hcall.counter = MaxUint16 /\ hres.value = 1

\* ------------------------------------------------------------------------
\* Malformed frames (checked under Spec)
\* ------------------------------------------------------------------------

\* The frame violates the wire format: its length field or its body cannot
\* be decoded.
Malformed(f) == f.t = "MALFORMED" \/ f.short

\* The reader r decodes a malformed frame from the socket of the connected
\* client in this step.
DecodesMalformed(r) ==
    /\ readPacket(r, FALSE)
    /\ connected /\ rsock[r] = conn
    /\ Malformed(Head(inq[rsock[r]]))

\* C19: a reader that decodes a malformed frame while the client is connected
\* goes to handleDisconnect and nowhere else: it decodes no further frame,
\* and when it leaves handleDisconnect the client is disconnected and the
\* socket the frame came from is closed.
C19_MalformedDisconnects ==
    [][\A r \in Tasks :
          /\ DecodesMalformed(r) => (~panicked' /\ rpc'[r] = "hd")
          /\ rpc[r] = "hd" => rpc'[r] \in {"hd", "off"}
          /\ (rpc[r] = "hd" /\ rpc'[r] = "off")
             => (~connected' /\ sock'[rsock[r]] = "closed")]_vars

\* C19: the reader has decoded a malformed frame from the socket of the
\* connected client and is on its way through handleDisconnect.
C19_Witness ==
    \E r \in Tasks : rpc[r] = "hd" /\ connected /\ rsock[r] = conn

\* ------------------------------------------------------------------------
\* Properties of the allocation of identifiers (checked under AllocSpec)
\* ------------------------------------------------------------------------

\* The sequence holds no value twice.
Distinct(q) == \A i, j \in 1 .. Len(q) : i # j => q[i] # q[j]

C22_NoReuseWhilePending ==
    \A c, d \in Callers :
        (c # d /\ pc[c] = pc[d] /\ pc[c] \in {"waitSuback", "waitPuback"})
        => cpid[c] # cpid[d]

\* C22: two requests of the same kind wait for their acknowledgments.
C22_Witness ==
    pc["worker"] = "waitSuback" /\ pc["app"] = "waitSuback"

\* ------------------------------------------------------------------------
\* Requests and their acknowledgments (checked under TimelySpec and Spec)
\* ------------------------------------------------------------------------

\* C23: a QoS-1 publish whose PUBACK never arrives ends its wait, when the
\* deadline expires, with the timeout error; afterwards the client holds
\* nothing of the request: the caller is idle and holds no identifier, the
\* lock is free, and the channels, the counter and the connection are as they
\* were, with the identifier of the request in no channel.
C23_TimeoutLeavesNoTrace ==
    [][\A c \in Callers :
          (pc[c] = "waitPuback" /\ pc'[c] # "waitPuback" /\ pubackChan = <<>> /\ ~panicked')
          => /\ ret' = [err |-> "PUBACK timeout", line |-> 659]
             /\ pc'[c] = "idle" /\ cpid'[c] = 0 /\ mu' = Free
             /\ pubackChan' = <<>>
             /\ UNCHANGED <<conn, connected, packetID, connackChan, subackChan, sockVars>>]_vars

\* C23: a QoS-1 publish has returned the timeout error.
C23_Witness ==
    /\ ret = [err |-> "PUBACK timeout", line |-> 659]
    /\ pc["app"] = "idle" /\ mu = Free /\ pubackChan = <<>>

\* The SUBACK holds the return code 0x80 for at least one topic.
Rejects(suback) == \E i \in 1 .. Len(suback.codes) : suback.codes[i] = 128

\* C24: a subscribe that receives the SUBACK carrying its identifier fails
\* with the subscription error if a return code is 0x80, whatever the other
\* codes are, and succeeds only if none is.
C24_RejectedSubscribeFails ==
    [][\A c \in Callers :
          (SubscribeSuback(c) /\ Head(subackChan).id = cpid[c])
          => IF Rejects(Head(subackChan))
             THEN ret' = [err |-> "subscription failed", line |-> 592]
             ELSE ret' = [err |-> "nil", line |-> 599]]_vars

\* C24: a subscribe has failed on a SUBACK with a refused topic.
C24_Witness == ret = [err |-> "subscription failed", line |-> 592]

\* ------------------------------------------------------------------------
\* Writes to the socket (checked under Spec)
\* ------------------------------------------------------------------------

\* C25: every frame is written by a task that holds the client lock: the step
\* that puts a frame on the wire either takes the lock itself, finding it
\* free, or is the CONNECT of the caller that holds it since its Connect
\* began.  No task writes while another holds the lock, so no two frames are
\* interleaved.
C25_WritesUnderLock ==
    [][sent' # NoWrite
       => \/ mu = Free
          \/ \E c \in Callers : mu = c /\ sendConnect(c) /\ sent'.frame.t = "CONNECT"]_vars

\* C25: the keepalive task has written a PINGREQ while a reader, with a
\* PUBACK to write, waits for the lock.
C25_Witness ==
    /\ sent.frame.t = "PINGREQ"
    /\ \E r \in Tasks : rpc[r] = "puback"

\* ------------------------------------------------------------------------
\* Inbound PUBLISH frames (checked under Spec)
\* ------------------------------------------------------------------------

\* The reader r decodes a well-formed PUBLISH with QoS 1 in this step.
DecodesQos1(r) ==
    /\ readPacket(r, FALSE)
    /\ LET f == Head(inq[rsock[r]])
       IN  f.t = "PUBLISH" /\ f.qos = 1 /\ ~f.short

\* C26: for an inbound QoS-1 PUBLISH the handler is not started by the step
\* that decodes the frame; it is started by the step that writes the PUBACK
\* with the identifier of the frame, and that PUBACK is written whether or not
\* a handler is registered (it reaches the wire whenever the socket takes the
\* write).
C26_PubackWithHandler ==
    [][\A r \in Tasks :
          /\ DecodesQos1(r)
             => /\ called' = NoCall
                /\ rpc'[r] = "puback"
                /\ rframe'[r] = Head(inq[rsock[r]])
          /\ rpc[r] = "puback"
             => \/ rpc'[r] = "puback" /\ rframe'[r] = rframe[r]
                \/ /\ sendPuback(r)
                   /\ CanWrite(conn)
                      => sent' = [sock |-> conn,
                                  frame |-> Frame("PUBACK", rframe[r].id, 0, 0, <<>>, FALSE)]
                   /\ (called' # NoCall) = messageHandler
                \/ panicked']_vars

\* C26: the PUBACK of an inbound QoS-1 PUBLISH has been written with no
\* handler registered.
C26_Witness ==
    /\ sent.frame.t = "PUBACK" /\ sent.frame.id \in BrokerPids
    /\ ~messageHandler /\ called = NoCall

\* The reader r has a frame to decode: it is in its read and its socket holds
\* a frame.
FrameToRead(r) ==
    /\ ~panicked
    /\ rpc[r] = "reading"
    /\ sock[rsock[r]] # "closed" /\ inq[rsock[r]] # <<>>

\* C27: handlers that never return do not stop the reader: with handlers
\* running, a reader that has a frame to decode can decode it, and the
\* acknowledgment it decodes is sent to the channel the callers wait on.
C27_HandlerDoesNotStall ==
    [][\A r \in Tasks :
          /\ (handlers > 0 /\ FrameToRead(r)) => ENABLED readPacket(r, FALSE)
          /\ (handlers > 0 /\ readPacket(r, FALSE))
             => LET f == Head(inq[rsock[r]])
                IN  /\ (f.t = "CONNACK" /\ ~f.short) => connackChan' = handleConnack(f)
                    /\ (f.t = "PUBACK" /\ ~f.short) => pubackChan' = handlePuback(f)
                    /\ (f.t = "SUBACK" /\ ~f.short) => subackChan' = handleSuback(f)]_vars

\* C27: a handler has been started and is running, and the reader has the
\* next frame to decode, the CONNACK a connect call waits for.
C27_Witness ==
    /\ handlers > 0
    /\ Waiting("waitConnack")
    /\ \E r \in Tasks : FrameToRead(r) /\ Head(inq[rsock[r]]).t = "CONNACK"

\* startKeepAlive (mqtt.go 739): `m.lastPing = time.Now()` runs in the step of
\* the keepalive goroutine that wrote a PINGREQ, and nowhere else; lastPing is
\* the only timestamp the client keeps.
lastPingAssigned == sent.frame.t = "PINGREQ"

\* The reader r decodes a PINGRESP in this step.
DecodesPingresp(r) ==
    /\ FrameToRead(r)
    /\ Head(inq[rsock[r]]).t = "PINGRESP"
    /\ readPacket(r, FALSE)

PingFails(k) ==
    /\ connected /\ ~CanWrite(conn)
    /\ sendPingreq(k, FALSE)

\* C29: a PINGREQ whose write fails while Connected takes the keepalive task
\* into handleDisconnect; the task can run it as soon as the lock is free,
\* does nothing else before, and leaves it terminated with the client
\* Disconnected and the socket closed.
C29_FailedPingDisconnects ==
    [][\A k \in Tasks :
          /\ PingFails(k) => kpc'[k] = "hd"
          /\ (kpc[k] = "hd" /\ mu = Free /\ ~panicked) => ENABLED keepAliveDisconnect(k)
          /\ kpc[k] = "hd"
             => \/ kpc'[k] = "hd"
                \/ /\ kpc'[k] = "off"
                   /\ ~connected'
                   /\ conn' = conn /\ sock'[conn] = "closed"]_vars

\* C29: a ping has failed while the client is Connected and the keepalive
\* task is about to run handleDisconnect.
C29_Witness ==
    \E k \in Tasks : kpc[k] = "hd" /\ connected /\ mu = Free /\ sock[conn] = "down"

\* The PUBLISH body handed to handlePublish holds its whole header, and
\* decompression of the message payload that follows it fails.
DecompressionFails ==
    /\ hcall.fn = "handlePublish"
    /\ PayloadLen(hcall.qos, hcall.len, hcall.topicLen) >= 0
    /\ hcall.zlib # "valid"

\* C30: when decompression of an inbound PUBLISH payload fails, handlePublish
\* returns no error (the reader goes on and the connection stays Connected)
\* and the payload it starts the handler with is the raw payload, unchanged.
C30_RawOnFailedDecompress ==
    (hres.done /\ DecompressionFails)
    => /\ hres.err = "nil" /\ ~hres.panic
       /\ hres.messagePayload = Payload("raw", hcall.zlib)

\* C30: handlePublish has been run on a payload whose zlib stream breaks off
\* after part of it was inflated.
C30_Witness ==
    hres.done /\ DecompressionFails /\ hcall.zlib = "truncated" /\ hcall.qos = 1

\* ------------------------------------------------------------------------
\* Shared fields and the lock (checked under Spec)
\* ------------------------------------------------------------------------

\* C31: every read and every update of the packet-identifier counter is made
\* under the client lock: the counter changes only in the step of a Subscribe
\* or Publish call that takes the lock, finding it free, and never while
\* another task holds the lock.
C31_CounterUnderLock ==
    [][packetID' # packetID
       => /\ mu = Free
          /\ \E c \in Callers : Subscribe(c) \/ \E qos \in 1 .. 2 : Publish(c, qos)
          /\ packetID' = nextPacketID(packetID)]_vars

\* C31: a subscribe call and then a publish call have each allocated an
\* identifier; the publish holds the lock the subscribe needs for its write.
C31_Witness ==
    /\ pc["worker"] = "subscribeWrite" /\ cpid["worker"] = 1
    /\ mu = "app" /\ pc["app"] = "waitPuback" /\ cpid["app"] = 2
    /\ packetID = 2

\* ------------------------------------------------------------------------
\* Publish and inbound traffic (checked under SessionSpec)
\* ------------------------------------------------------------------------

\* The caller c waits for the PUBACK of its publish; the broker has sent an
\* inbound QoS-1 PUBLISH, which the reader of the connection is handling, and
\* then that PUBACK, which is the next frame on the socket.
AckBehindInbound(c) ==
    /\ pc[c] = "waitPuback" /\ pubackChan = <<>>
    /\ sock[conn] = "up"
    /\ \E r \in Tasks : rpc[r] = "puback" /\ rsock[r] = conn
    /\ inq[conn] # <<>>
    /\ Head(inq[conn]) = Frame("PUBACK", cpid[c], 0, 0, <<>>, FALSE)

\* C32: a QoS-1 publish whose PUBACK the broker has sent returns success even
\* when an inbound QoS-1 PUBLISH was delivered before that PUBACK: the call
\* does not end while the PUBACK is still behind the inbound PUBLISH the
\* reader is handling, other than with success.
C32_PublishDespiteInbound ==
    [][\A c \in Callers :
          (AckBehindInbound(c) /\ pc'[c] = "idle")
          => ret' = [err |-> "nil", line |-> 663]]_vars

\* C32: a publish waits for its PUBACK, which the broker has sent behind an
\* inbound QoS-1 PUBLISH.
C32_Witness == AckBehindInbound("app") /\ mu = "app"

\* ------------------------------------------------------------------------
\* Successive connections (checked under Spec)
\* ------------------------------------------------------------------------

\* The reader r was started by the Connect call that dialed socket r
\* (mqtt.go 141-143); the connection m.conn names now was dialed by a later
\* call.
Superseded(r) == rpc[r] # "off" /\ conn > r

\* C33: a reader task that belongs to an earlier connection never changes
\* the state of a later one: its run of handleDisconnect neither clears the
\* connected flag nor closes the socket of a connection a later connect call
\* established.
C33_StaleReaderHarmless ==
    [][\A r \in Tasks :
          (Superseded(r) /\ ReaderDisconnects(r))
          => UNCHANGED <<connected, sock>>]_vars

\* C33: the reader of the first connection is still running while the client
\* is connected on the second, and nothing holds the lock.
C33_Witness ==
    /\ Superseded(1) /\ conn = 2
    /\ connected /\ sock[2] = "up" /\ mu = Free

\* C34: connect() returns success only if a CONNACK with return code 0 was
\* received on the socket that call opened; a CONNACK an earlier connection
\* left in connackChan never makes a later connect succeed.
C34_OwnConnackOnly ==
    ret = [err |-> "nil", line |-> 172] => connackSeen

\* C34: a second connect call waits for its CONNACK, none has been read on
\* its socket, and connackChan holds a CONNACK of the first connection.
C34_Witness ==
    /\ pc["app"] = "waitConnack" /\ conn = 2
    /\ ~connackSeen /\ inq[2] = <<>>
    /\ connackChan = <<0>>

\* ------------------------------------------------------------------------
\* Calls on a client that is not connected (checked under Spec)
\* ------------------------------------------------------------------------

\* The caller c makes a step of a publish or subscribe call in this step.
RequestStep(c) ==
    \/ \E qos \in {0, 1} : Publish(c, qos)
    \/ Subscribe(c)
    \/ SubscribeWrite(c)

\* C35: publish and subscribe called while the client is not Connected
\* return an error: no step of the call writes to a socket, changes the
\* packet-identifier counter or dereferences an absent socket, and the step
\* that begins the call returns the error.
C35_NotConnectedIsError ==
    [][\A c \in Callers :
          (~connected /\ RequestStep(c))
          => /\ sent' = NoWrite
             /\ packetID' = packetID
             /\ ~panicked'
             /\ pc[c] = "idle" => ret'.err \notin {"none", "nil"}]_vars

\* C35: subscribe was called on a client that never connected; the call has
\* taken an identifier and is about to write to the socket m.conn names.
C35_Witness ==
    /\ ~connected /\ conn = NoSock /\ nsock = 0
    /\ pc["worker"] = "subscribeWrite" /\ cpid["worker"] = packetID

\* The reader r reads m.messageHandler in this step (mqtt.go 481): it decodes
\* a PUBLISH that needs no PUBACK and goes straight to the dispatch.
ReadsHandler(r) ==
    /\ FrameToRead(r)
    /\ LET f == Head(inq[rsock[r]])
       IN  f.t = "PUBLISH" /\ ~f.short /\ f.qos # 1
    /\ readPacket(r, FALSE)

\* C36: every access to a shared field of the client is made under the
\* client lock; in particular the reader reads the registered message
\* handler only in a step that takes the lock, never while another task
\* holds it.
C36_HandlerReadUnderLock ==
    [][\A r \in Tasks : ReadsHandler(r) => mu = Free]_vars

\* C36: a handler is registered, a caller holds the lock inside a publish,
\* and the reader has an inbound QoS-0 PUBLISH to decode.
C36_Witness ==
    /\ messageHandler /\ mu = "app" /\ pc["app"] = "waitPuback"
    /\ \E r \in Tasks :
          /\ FrameToRead(r)
          /\ Head(inq[rsock[r]]) = Frame("PUBLISH", 0, 0, 0, <<>>, FALSE)

\* ------------------------------------------------------------------------
\* Outbound PUBLISH frames (checked under Spec)
\* ------------------------------------------------------------------------

\* C37: an outbound PUBLISH carries a packet identifier if and only if its
\* QoS is greater than 0; a QoS-0 publish leaves the counter unchanged and
\* returns in the step that writes the frame, holding no lock, waiting for no
\* acknowledgment and taking none from pubackChan.
C37_IdIffQosPositive ==
    [][\A c \in Callers :
          /\ (connected /\ \E qos \in {0, 1} : Publish(c, qos))
             => (sent' # NoWrite
                 => /\ sent'.frame.t = "PUBLISH"
                    /\ (sent'.frame.id # 0) <=> (sent'.frame.qos > 0))
          /\ (connected /\ Publish(c, 0))
             => /\ packetID' = packetID
                /\ pc'[c] = "idle" /\ mu' = Free
                /\ UNCHANGED chanVars
                /\ CanWrite(conn) => ret' = [err |-> "nil", line |-> 663]]_vars

\* C37: a QoS-0 publish has written its frame and returned while pubackChan
\* holds an acknowledgment.
C37_Witness ==
    /\ sent.frame.t = "PUBLISH" /\ sent.frame.qos = 0
    /\ ret = [err |-> "nil", line |-> 663]
    /\ pubackChan # <<>>

\* ------------------------------------------------------------------------
\* Length prefixes of outbound frames (checked under HandlerSpec)
\* ------------------------------------------------------------------------

\* A length-prefixed field of an outbound frame has been written.
FieldWritten ==
    hres.done /\ hcall.fn \in {"buildConnectPacket", "Subscribe", "Publish"}

\* C38: in every frame the client writes, each 16-bit length prefix equals
\* the byte length of the field that follows it, whatever the length of the
\* field, lengths above 65535 included.
C38_PrefixIsFieldLength ==
    FieldWritten => hres.value = hres.written

\* C38: Publish has written a topic of more than 65535 bytes behind its
\* length prefix.
C38_Witness ==
    FieldWritten /\ hcall.fn = "Publish" /\ hcall.len > MaxUint16

====
